---- MODULE Spec2Model ----
(***************************************************************************)
(* The asynchronous bulk-ingestion engine of the CRM backend:              *)
(*   - BackgroundTaskManager / TaskProgress  (app/core/background_tasks.py)*)
(*   - refresh_oauth_token                   (app/core/database.py)        *)
(*   - the seven _process_*_bulk_upload runners (app/api/v1/endpoints)     *)
(*   - the bulk_create_* writers they call   (app/crud)                    *)
(*                                                                         *)
(* One upload is followed from create_task to the end of run_in_thread.    *)
(* Python indices are kept 0-based as in the source (chunk_start, i,       *)
(* actual_idx); data_list[k] of the source is data_list[k + 1] here.       *)
(*                                                                         *)
(* The database is the environment.  Every statement sent to it either     *)
(* succeeds or raises; which exception class it raises is abstracted to    *)
(* the classes the code branches on:                                       *)
(*   "integrity"   sqlalchemy.exc.IntegrityError                           *)
(*   "conn"        OperationalError whose text holds 'connection'/'ssl'    *)
(*   "timeout"     OperationalError whose text holds 'timeout'             *)
(*   "rolledback"  OperationalError whose text holds 'rolled back'         *)
(*   "operr"       OperationalError with none of the keywords              *)
(*   "other"       any other Exception (DataError, ProgrammingError, ...)  *)
(*   "pending"     PendingRollbackError: the session was used after a      *)
(*                 failed bulk statement without a rollback                *)
(* A unique-key conflict always raises "integrity"; the other failures are *)
(* spontaneous and are drawn at most MaxFaults times in a run.             *)
(***************************************************************************)
EXTENDS Integers, Sequences, FiniteSets, TLC

(***************************************************************************)
(* Bounds of the model.                                                    *)
(***************************************************************************)
MaxLen == 3
MaxBatch == 2
MaxFaults == 2
MaxTaskFaults == 3
MaxTicks == 2
MaxCalls == 3
ErrorRows == 5

(***************************************************************************)
(* Program constants.                                                      *)
(***************************************************************************)
ROW_OFFSET == 2
LIVE_ERRORS == 10
RESULT_CAP == 100
max_retries == 3
refresh_interval == 900
TOKEN_REFRESH_INTERVAL == 900
_cleanup_interval == 3600
SWEEP_WAIT == 300

Keys == {"a", "b"}

Runners == {"contacts", "leads", "accounts", "opportunities", "tasks",
            "calendar", "email_campaigns"}

\* Runners that start with `if settings.USE_OAUTH: refresh_oauth_token()`.
AuthRunners == {"contacts", "leads", "accounts", "opportunities"}

\* Runners whose `if batch_...:` block is indented inside `for i in range(...)`,
\* so that every batch is inserted and reported.  In the others the block sits
\* at the chunk level: it runs once per chunk, on the chunk's last batch.
PerBatchRunners == {"contacts", "leads", "calendar"}

\* Runners whose table has a unique natural key (Contact.email, Account.name).
UniqueRunners == {"contacts", "accounts"}

\* Runners whose writer is a crud bulk_create_* that swallows the records it
\* could not insert one by one and returns only a count.
CountingWriters == {"opportunities", "calendar", "email_campaigns"}

\* Runners whose return value slices failed_records[:100].
CappedRunners == {"accounts", "opportunities", "tasks", "calendar",
                  "email_campaigns"}

OperationalKinds == {"conn", "timeout", "rolledback", "operr"}

\* The exception classes a spontaneous failure is drawn from, per runner:
\* only the tasks writer and runner read the text of an OperationalError.
FaultKinds(r) ==
  IF r = "tasks" THEN {"conn", "timeout", "rolledback", "operr", "other"}
  ELSE {"integrity", "operr", "other"}

\* crud/tasks.py _is_connection_error
_is_connection_error(kind) == kind \in {"conn", "timeout"}

\* endpoints/tasks.py is_connection_error
is_connection_error(kind) == kind \in {"conn", "rolledback"}

Min(a, b) == IF a < b THEN a ELSE b

\* The threads that call TokenManager.get_token.
Threads == {"w1", "w2"}

\* Python's s[-n:]
LastN(s, n) == IF Len(s) <= n THEN s ELSE SubSeq(s, Len(s) - n + 1, Len(s))

\* Python's s[:n]
FirstN(s, n) == IF Len(s) <= n THEN s ELSE SubSeq(s, 1, n)

Range(s) == {s[k] : k \in 1..Len(s)}

VARIABLES
  \* the request and the configuration
  runner,            \* which _process_*_bulk_upload is run
  data_list,         \* the parsed rows: [valid, key]
  CHUNK_SIZE,
  BATCH_SIZE,
  USE_OAUTH,         \* settings.USE_OAUTH
  static_password,   \* settings.DATABRICKS_PASSWORD or settings.PGPASSWORD
  \* app/core/database.py globals
  postgres_password,
  last_password_refresh,
  rf_pc,             \* rf_pc[th]: where thread th is in refresh_oauth_token
  \* the storage
  db_pre,            \* keys stored before the upload
  db_rows,           \* db_rows[k]: rows stored for data_list[k]
  sess_dirty,        \* the session needs a rollback before its next use
  \* task_manager.tasks
  tasks,
  \* run_in_thread and the runner function
  pc,
  task_id,
  success_count,
  failed_count,
  failed_records,
  existing_emails,
  chunk_start,
  i,
  actual_idx,
  batch_len,         \* len(batch)
  batch_valid,       \* batch_contacts / batch_leads / batch_data / ...
  to_insert,         \* unique_contacts / leads_to_insert / db_tasks / ...
  bulk_failed,       \* failed_records of bulk_create_contacts
  count,
  j,                 \* position of the one-by-one loops
  attempt,           \* retry loop of the tasks runner
  crud_attempt,      \* retry loop of bulk_create_tasks
  exc,               \* the exception being propagated, "none" if none
  ret,               \* <<d>> once the runner function returned dict d
  \* bookkeeping of the run, read only by the properties
  faults,            \* spontaneous failures drawn so far
  hist,
  \* the clock and the cleanup thread of the manager
  now,               \* seconds
  next_sweep,        \* when the cleanup thread wakes up next
  ticks,             \* periods of time gone by
  \* app/core/token_manager.py
  DATABRICKS_SDK_AVAILABLE,
  fallback_password,
  _token,
  _last_refresh,
  _workspace_client,
  _lock,             \* "free" or the thread that holds self._lock
  tm_pc,             \* tm_pc[th]: where thread th is in get_token
  force_refresh,     \* force_refresh[th]: the argument of its call
  new_token,         \* new_token[th]: what _fetch_oauth_token gave it
  tm_ret,            \* tm_ret[th]: what its call returned or raised
  calls              \* calls of get_token made so far

vars == <<runner, data_list, CHUNK_SIZE, BATCH_SIZE, USE_OAUTH, static_password,
          postgres_password, last_password_refresh, rf_pc, db_pre, db_rows, sess_dirty, tasks, pc, task_id,
          success_count, failed_count, failed_records, existing_emails,
          chunk_start, i, actual_idx, batch_len, batch_valid, to_insert,
          bulk_failed, count, j, attempt, crud_attempt, exc, ret, faults, hist,
          now, next_sweep, ticks, DATABRICKS_SDK_AVAILABLE, fallback_password,
          _token, _last_refresh, _workspace_client, _lock, tm_pc,
          force_refresh, new_token, tm_ret, calls>>

clockVars == <<now, next_sweep, ticks>>

tmVars == <<DATABRICKS_SDK_AVAILABLE, fallback_password, _token, _last_refresh,
            _workspace_client, _lock, tm_pc, force_refresh, new_token, tm_ret,
            calls>>

rfVars == <<last_password_refresh, rf_pc>>

auxVars == <<clockVars, tmVars, rfVars>>

cfgVars == <<runner, data_list, CHUNK_SIZE, BATCH_SIZE, USE_OAUTH,
             static_password, db_pre>>

(***************************************************************************)
(* Inputs.                                                                 *)
(***************************************************************************)
Invalid == [valid |-> FALSE, key |-> "none"]
Valid(k) == [valid |-> TRUE, key |-> k]

RowTypes == {Invalid} \cup {Valid(k) : k \in Keys}

Inputs == UNION {[1..n -> RowTypes] : n \in 0..MaxLen}

\* (CHUNK_SIZE, BATCH_SIZE): a chunk holds one batch or two.  The source's
\* pairs are (50000, 5000), (5000, 1000), (10000, 5000) and (50000, 10000).
SizePairs == {<<b * m, b>> : b \in 1..MaxBatch, m \in 1..2}

\* The upload of section 8's end-to-end scenario: twelve records, the
\* seventh invalid, the tenth with the key of the third, batches of five.
ScenarioInput ==
  <<Valid("k1"), Valid("k2"), Valid("k3"), Valid("k4"), Valid("k5"),
    Valid("k6"), Invalid, Valid("k8"), Valid("k9"), Valid("k3"),
    Valid("k11"), Valid("k12")>>

ScenarioSizes == <<50, 5>>

\* An upload whose every row is rejected, one row to a batch: each batch
\* adds an error record and ends with a progress update.
ErrorsInput == [k \in 1..ErrorRows |-> Invalid]

\* An upload with one more rejected row than the result may list, in one
\* batch.
OverCapInput == [k \in 1..RESULT_CAP + 1 |-> Invalid]

(***************************************************************************)
(* TaskProgress.                                                           *)
(***************************************************************************)
\* TaskProgress.__init__
NewTask(total) ==
  [status |-> "pending", total |-> total, processed |-> 0,
   success_count |-> 0, failed_count |-> 0, errors |-> <<>>,
   started_at |-> "None", completed_at |-> <<>>, result |-> <<>>,
   error_message |-> "None"]

\* TaskProgress.start
start(t) == [t EXCEPT !.status = "processing", !.started_at = "set"]

\* TaskProgress.update(processed=, success=, failed=, errors=)
update(t, processed, success, failed, errors) ==
  [t EXCEPT !.processed = processed,
            !.success_count = success,
            !.failed_count = failed,
            !.errors = IF errors # <<>> THEN @ \o errors ELSE @]

\* TaskProgress.complete
complete(t, result) ==
  [t EXCEPT !.status = "completed", !.completed_at = <<now>>,
            !.result = result]

\* fail that records no completion time.
fail_untimed(t, error_message) ==
  [t EXCEPT !.status = "failed", !.error_message = error_message]

\* TaskProgress.fail
fail(t, error_message) ==
  [t EXCEPT !.status = "failed", !.completed_at = <<now>>,
            !.error_message = error_message]

(***************************************************************************)
(* BackgroundTaskManager: each operation looks the task up and does        *)
(* nothing when it is not registered.                                      *)
(***************************************************************************)
\* The identifiers uuid.uuid4() gives out in a run; a uuid is taken never to
\* repeat one that was given out before.
TaskIds == {"t1"}

\* BackgroundTaskManager.__init__: self.tasks = {}
NoTasks == [x \in {} |-> NewTask(0)]

\* The registry when an upload of an empty list has completed before: its
\* task "t0" after create_task(0), start_task and complete_task.
EarlierTasks ==
  [x \in {"t0"} |->
     [start(NewTask(0)) EXCEPT
        !.status = "completed",
        !.completed_at = <<0>>,
        !.result = <<[success |-> TRUE, success_count |-> 0,
                      failed_count |-> 0, has_failed_records |-> TRUE,
                      failed_records |-> <<>>]>>]]

\* The registry while another upload, of one record, is still running: its
\* task "t0" after create_task(1) and start_task.
RunningTasks == [x \in {"t0"} |-> start(NewTask(1))]

\* create_task that forgets the tasks registered before.
create_task_alone(reg, tid, total) ==
  [x \in {tid} |-> NewTask(total)]

\* BackgroundTaskManager.create_task
create_task(reg, tid, total) ==
  [x \in DOMAIN reg \cup {tid} |-> IF x = tid THEN NewTask(total) ELSE reg[x]]

\* BackgroundTaskManager.start_task
start_task(reg, tid) ==
  IF tid \in DOMAIN reg THEN [reg EXCEPT ![tid] = start(@)] ELSE reg

\* update_task that registers a task for an identifier it does not know.
update_task_registering(reg, tid, processed, success, failed, errors) ==
  [x \in DOMAIN reg \cup {tid} |->
     update(IF x \in DOMAIN reg THEN reg[x] ELSE NewTask(0),
            IF x = tid THEN processed ELSE reg[x].processed,
            IF x = tid THEN success ELSE reg[x].success_count,
            IF x = tid THEN failed ELSE reg[x].failed_count,
            IF x = tid THEN errors ELSE <<>>)]

\* BackgroundTaskManager.update_task
update_task(reg, tid, processed, success, failed, errors) ==
  IF tid \in DOMAIN reg
  THEN [reg EXCEPT ![tid] = update(@, processed, success, failed, errors)]
  ELSE reg

\* BackgroundTaskManager.complete_task
complete_task(reg, tid, result, success, failed, errors) ==
  IF tid \in DOMAIN reg
  THEN [reg EXCEPT ![tid] =
          complete([@ EXCEPT !.success_count = success,
                             !.failed_count = failed,
                             !.errors = IF errors # <<>> THEN errors ELSE @],
                   result)]
  ELSE reg

\* fail_task that leaves the task as it is.
fail_task_dropped(reg, tid, error_message) == reg

\* BackgroundTaskManager.fail_task
fail_task(reg, tid, error_message) ==
  IF tid \in DOMAIN reg THEN [reg EXCEPT ![tid] = fail(@, error_message)]
  ELSE reg

\* BackgroundTaskManager.get_task: <<>> is None
get_task(reg, tid) == IF tid \in DOMAIN reg THEN <<reg[tid]>> ELSE <<>>

\* A sweep that removes failed tasks only.
cleanup_old_failed(reg, t) ==
  LET to_remove == {x \in DOMAIN reg :
                      /\ reg[x].status = "failed"
                      /\ reg[x].completed_at # <<>>
                      /\ t - reg[x].completed_at[1] > _cleanup_interval}
  IN [x \in DOMAIN reg \ to_remove |-> reg[x]]

\* BackgroundTaskManager.cleanup_old_tasks, run at time t
cleanup_old_tasks(reg, t) ==
  LET to_remove == {x \in DOMAIN reg :
                      /\ reg[x].completed_at # <<>>
                      /\ t - reg[x].completed_at[1] > _cleanup_interval}
  IN [x \in DOMAIN reg \ to_remove |-> reg[x]]

\* task = task_manager.get_task(task_id); if task: task.fail(...)
\* (the runner's own write to the task, made outside the manager)
direct_fail(reg, tid, error_message) ==
  IF tid \in DOMAIN reg THEN [reg EXCEPT ![tid] = fail(@, error_message)]
  ELSE reg

(***************************************************************************)
(* refresh_oauth_token, OAuth mode.  `stale` says whether more than        *)
(* TOKEN_REFRESH_INTERVAL has passed since the last refresh; `sdk` is what *)
(* the identity provider does: "ok", "fail" (the fetch raises) or "absent" *)
(* (the SDK is not installed).  The function catches every exception of    *)
(* the fetch, so it returns and never raises.                              *)
(***************************************************************************)
SdkOutcomes == {"ok", "fail", "absent"}

refresh_oauth_token(pw, stale, sdk) ==
  IF pw = "None" \/ stale
  THEN IF sdk = "ok"
       THEN [password |-> "oauth", result |-> TRUE]
       ELSE [password |-> static_password, result |-> static_password # ""]
  ELSE [password |-> pw, result |-> TRUE]

(***************************************************************************)
(* The initial state: the manager is constructed and empty, an upload      *)
(* request has been parsed.                                                *)
(***************************************************************************)
NoHist ==
  [authFailed |-> FALSE, validated |-> 0, updates |-> 0,
   rollbackRaised |-> FALSE, snapS |-> 0, snapF |-> 0, bulkFailed |-> FALSE,
   indivTried |-> 0, indivFailed |-> 0, bulkAttempts |-> 0,
   queryFailed |-> FALSE, seen |-> <<>>, escaped |-> FALSE,
   unlockedWrites |-> 0, finished |-> <<>>, batches |-> 0,
   refreshed |-> <<>>, refreshes |-> 0, op |-> <<>>, got |-> <<>>, evicted |-> {},
   fetches |-> 0, mine |-> [th \in Threads |-> 0], pwOf |-> 0, stampOf |-> 0]

InitRun ==
  /\ postgres_password = "None"
  /\ last_password_refresh = 0
  /\ rf_pc = [th \in Threads |-> "idle"]
  /\ db_rows = [k \in 1..Len(data_list) |-> 0]
  /\ sess_dirty = FALSE
  /\ task_id = "None"
  /\ success_count = 0
  /\ failed_count = 0
  /\ failed_records = <<>>
  /\ existing_emails = {}
  /\ chunk_start = 0
  /\ i = 0
  /\ actual_idx = 0
  /\ batch_len = 0
  /\ batch_valid = <<>>
  /\ to_insert = <<>>
  /\ bulk_failed = <<>>
  /\ count = 0
  /\ j = 1
  /\ attempt = 0
  /\ crud_attempt = 0
  /\ exc = "none"
  /\ ret = <<>>
  /\ faults = 0
  /\ hist = NoHist
  /\ now = 0
  /\ next_sweep = SWEEP_WAIT
  /\ ticks = 0
  /\ _token = "None"
  /\ _last_refresh = 0
  /\ _workspace_client = "None"
  /\ _lock = "free"
  /\ tm_pc = [th \in Threads |-> "idle"]
  /\ force_refresh = [th \in Threads |-> FALSE]
  /\ new_token = [th \in Threads |-> "unset"]
  /\ tm_ret = [th \in Threads |-> "None"]
  /\ calls = 0

InitSmall ==
  /\ runner \in Runners
  /\ data_list \in Inputs
  /\ \E p \in SizePairs : CHUNK_SIZE = p[1] /\ BATCH_SIZE = p[2]
  /\ USE_OAUTH \in (IF runner \in AuthRunners THEN BOOLEAN ELSE {FALSE})
  /\ static_password \in (IF USE_OAUTH THEN {"", "static"} ELSE {""})
  /\ db_pre \in {{}, {"a"}}

InitScenario ==
  /\ runner \in {"contacts", "leads"}
  /\ data_list = ScenarioInput
  /\ CHUNK_SIZE = ScenarioSizes[1]
  /\ BATCH_SIZE = ScenarioSizes[2]
  /\ USE_OAUTH = FALSE
  /\ static_password = ""
  /\ db_pre = {}

InitErrors ==
  /\ runner = "contacts"
  /\ data_list = ErrorsInput
  /\ CHUNK_SIZE = ErrorRows
  /\ BATCH_SIZE = 1
  /\ USE_OAUTH = FALSE
  /\ static_password = ""
  /\ db_pre = {}

\* USE_OAUTH is set and the upload is one of those whose runner never
\* reads it: two records, one to a chunk.
InitOAuthPlain ==
  /\ runner \in Runners \ AuthRunners
  /\ data_list = <<Valid("a"), Valid("b")>>
  /\ CHUNK_SIZE = 1
  /\ BATCH_SIZE = 1
  /\ USE_OAUTH = TRUE
  /\ static_password = ""
  /\ db_pre = {}

InitOverCap ==
  /\ runner \in {"contacts", "accounts"}
  /\ data_list = OverCapInput
  /\ CHUNK_SIZE = Len(OverCapInput)
  /\ BATCH_SIZE = Len(OverCapInput)
  /\ USE_OAUTH = FALSE
  /\ static_password = ""
  /\ db_pre = {}

\* A second upload: the registry holds the task of an earlier one.
InitSecond ==
  /\ runner \in {"contacts", "accounts"}
  /\ data_list \in {<<Valid("a")>>, <<Invalid, Valid("a")>>}
  /\ CHUNK_SIZE = 1
  /\ BATCH_SIZE = 1
  /\ USE_OAUTH = FALSE
  /\ static_password = ""
  /\ db_pre = {}
  /\ tasks = EarlierTasks

\* An upload is about to be requested; the token manager is not used.
InitUpload ==
  /\ \/ /\ \/ InitSmall
           \/ InitScenario
           \/ InitErrors
           \/ InitOverCap
           \/ InitOAuthPlain
        /\ tasks = NoTasks
     \/ InitSecond
  /\ pc = "idle"
  /\ DATABRICKS_SDK_AVAILABLE = FALSE
  /\ fallback_password = ""

\* No upload: the threads of the token endpoint and of refresh_loop call
\* get_token of a TokenManager just constructed.
InitToken ==
  /\ runner = "contacts"
  /\ data_list = <<>>
  /\ CHUNK_SIZE = 1
  /\ BATCH_SIZE = 1
  /\ USE_OAUTH = FALSE
  /\ static_password = ""
  /\ db_pre = {}
  /\ tasks = NoTasks
  /\ pc = "token"
  /\ DATABRICKS_SDK_AVAILABLE \in BOOLEAN
  /\ fallback_password \in {"", "static"}

\* No upload is followed: callers use the operations of the task manager on
\* a registry that is empty or holds the task of another upload.
InitManager ==
  /\ runner = "contacts"
  /\ data_list = <<>>
  /\ CHUNK_SIZE = 1
  /\ BATCH_SIZE = 1
  /\ USE_OAUTH = FALSE
  /\ static_password = ""
  /\ db_pre = {}
  /\ tasks \in {NoTasks, EarlierTasks, RunningTasks}
  /\ pc = "manager"
  /\ DATABRICKS_SDK_AVAILABLE = FALSE
  /\ fallback_password = ""

\* No upload is followed: upload jobs and the refresh loop call
\* refresh_oauth_token, in OAuth mode, before any credential is held.
InitDatabase ==
  /\ runner = "contacts"
  /\ data_list = <<>>
  /\ CHUNK_SIZE = 1
  /\ BATCH_SIZE = 1
  /\ USE_OAUTH = TRUE
  /\ static_password \in {"", "static"}
  /\ db_pre = {}
  /\ tasks = NoTasks
  /\ pc = "database"
  /\ DATABRICKS_SDK_AVAILABLE \in BOOLEAN
  /\ fallback_password = ""

Init == (InitUpload \/ InitToken \/ InitDatabase) /\ InitRun


(***************************************************************************)
(* The storage, as the runners see it.                                     *)
(***************************************************************************)
KeyOf(x) == data_list[x + 1].key

StoredKeys == db_pre \cup {data_list[k].key : k \in {m \in 1..Len(data_list) : db_rows[m] > 0}}

\* The rows of xs are committed.
RowsAfter(xs) ==
  [k \in 1..Len(data_list) |->
     db_rows[k] + Cardinality({m \in 1..Len(xs) : xs[m] + 1 = k})]

\* What a statement can do: raise PendingRollbackError on a session that
\* needs a rollback, raise IntegrityError on a unique-key conflict, succeed,
\* or fail spontaneously.
\* The spontaneous failures a run may draw: one more for the tasks runner,
\* whose two nested retry loops need three failures to be seen at work.
FaultBudget == IF runner = "tasks" THEN MaxTaskFaults ELSE MaxFaults

DbOutcomes(conflict) ==
  IF sess_dirty THEN {"pending"}
  ELSE IF conflict THEN {"integrity"}
  ELSE {"ok"} \cup (IF faults < FaultBudget THEN FaultKinds(runner) ELSE {})

Cost(o, conflict) == IF o \in {"ok", "pending"} \/ conflict THEN 0 ELSE 1

\* db.rollback() after a failure of class o, when f spontaneous failures have
\* been drawn: it can raise only while the connection is in trouble.
RbOutcomes(o, f) ==
  {"ok"} \cup (IF o \in OperationalKinds /\ f < FaultBudget THEN {"raise"} ELSE {})

IsIntegrityOrOperational(o) == o = "integrity" \/ o \in OperationalKinds

UniqueConflict(xs) ==
  /\ runner \in UniqueRunners
  /\ \/ \E m \in 1..Len(xs) : KeyOf(xs[m]) \in StoredKeys
     \/ \E m, n \in 1..Len(xs) : m # n /\ KeyOf(xs[m]) = KeyOf(xs[n])

(***************************************************************************)
(* Error records: 'row', the error text (by class) and, for the            *)
(* properties, the index in data_list of the record the entry reports.     *)
(***************************************************************************)
ErrorRecord(row, error, rec) == [row |-> row, error |-> error, rec |-> rec]

\* for idx, x in enumerate(batch, start=actual_idx+2): the row of batch[p]
RowOfPosition(first, p) == first + ROW_OFFSET + p - 1

\* The duplicate filter of bulk_create_contacts (and of the leads runner):
\* walks items, rejects a key already in `existing` or seen in this batch,
\* accepts the others and adds their keys to both sets.
RECURSIVE Dedup(_, _, _, _, _, _)
Dedup(items, p, existing, seen, unique, failed) ==
  IF p > Len(items)
  THEN [existing |-> existing, unique |-> unique, failed |-> failed]
  ELSE LET x == items[p]
       IN IF KeyOf(x) \in existing
          THEN Dedup(items, p + 1, existing, seen, unique,
                     Append(failed, [email |-> KeyOf(x), error |-> "duplicate",
                                     rec |-> x, pos |-> p]))
          ELSE IF KeyOf(x) \in seen
          THEN Dedup(items, p + 1, existing, seen, unique,
                     Append(failed, [email |-> KeyOf(x), error |-> "duplicate",
                                     rec |-> x, pos |-> p]))
          ELSE Dedup(items, p + 1, existing \cup {KeyOf(x)},
                     seen \cup {KeyOf(x)}, Append(unique, x), failed)

\* for idx, c in enumerate(batch_contacts, start=actual_idx+2):
\*     if c.email == bulk_fail['email']: ... break
FirstPosition(items, key) ==
  CHOOSE p \in 1..Len(items) :
    /\ KeyOf(items[p]) = key
    /\ \A q \in 1..(p - 1) : KeyOf(items[q]) # key

(***************************************************************************)
(* The runner function: the chunk loop, the batch loop and validation.     *)
(***************************************************************************)
dbVars == <<db_rows, sess_dirty>>
loopVars == <<chunk_start, i, actual_idx, batch_len, batch_valid>>
countVars == <<success_count, failed_count, failed_records>>
crudVars == <<to_insert, bulk_failed, count, j, attempt, crud_attempt>>

chunk_len == Min(chunk_start + CHUNK_SIZE, Len(data_list)) - chunk_start

\* processed= counted from the start of the chunk.
ProcessedArgInChunk == i + batch_len

\* The value passed as processed= to update_task.
ProcessedArg ==
  IF runner = "tasks"
  THEN Min(actual_idx + batch_len, Len(data_list))
  ELSE actual_idx + batch_len

\* The dict a runner returns after its loop.
FinalResult ==
  [success |-> TRUE, success_count |-> success_count,
   failed_count |-> failed_count, has_failed_records |-> TRUE,
   failed_records |-> IF runner \in CappedRunners
                      THEN FirstN(failed_records, RESULT_CAP)
                      ELSE failed_records]

\* The dict the contacts runner returns when it gives up on a connection
\* error: it has no 'failed_records' entry.
EarlyResult ==
  [success |-> FALSE, success_count |-> success_count,
   failed_count |-> failed_count, has_failed_records |-> FALSE,
   failed_records |-> <<>>]

\* The dict the accounts runner returns from its `except Exception`.
AccountsFailedResult ==
  [success |-> FALSE, success_count |-> success_count,
   failed_count |-> failed_count, has_failed_records |-> TRUE,
   failed_records |-> FirstN(failed_records, RESULT_CAP)]

\* upload endpoint: task_id = task_manager.create_task(total=len(data_list))
CreateTask ==
  /\ pc = "idle"
  /\ \E tid \in TaskIds \ DOMAIN tasks :
       /\ tasks' = create_task(tasks, tid, Len(data_list))
       /\ task_id' = tid
  /\ pc' = "created"
  /\ UNCHANGED <<cfgVars, postgres_password, dbVars, countVars,
                 existing_emails, loopVars, crudVars, exc, ret, faults, hist>>
  /\ UNCHANGED auxVars

\* run_in_thread: self.start_task(task_id), then func(task_id, ...) is entered
StartTask ==
  /\ pc = "created"
  /\ tasks' = start_task(tasks, task_id)
  /\ pc' = IF runner \in AuthRunners /\ USE_OAUTH THEN "auth" ELSE "open"
  /\ UNCHANGED <<cfgVars, postgres_password, dbVars, task_id, countVars,
                 existing_emails, loopVars, crudVars, exc, ret, faults, hist>>
  /\ UNCHANGED auxVars

\* if settings.USE_OAUTH: try: refresh_oauth_token() except Exception: ...
\* The call returns True or False and does not raise, and its result is not
\* read: the runner goes on to open its session either way.
InitialRefresh ==
  /\ pc = "auth"
  /\ \E stale \in BOOLEAN, sdk \in SdkOutcomes :
       LET r == refresh_oauth_token(postgres_password, stale, sdk)
       IN /\ postgres_password' = r.password
          /\ hist' = [hist EXCEPT !.authFailed = ~r.result,
                                  !.refreshed = <<r.result>>]
  /\ pc' = "open"
  /\ UNCHANGED <<cfgVars, dbVars, tasks, task_id, countVars, existing_emails,
                 loopVars, crudVars, exc, ret, faults>>
  /\ UNCHANGED auxVars

\* db = SessionLocal() and what precedes the chunk loop:
\*   contacts: existing_emails is read from the table, and is the empty set
\*             when the query raises (the session is then left un-rolled-back);
\*   accounts: update_task(processed=0, success=0, failed=0, errors=[]).
OpenSession ==
  /\ pc = "open"
  /\ IF runner = "contacts"
     THEN \E o \in DbOutcomes(FALSE) :
            /\ existing_emails' = IF o = "ok" THEN StoredKeys ELSE {}
            /\ sess_dirty' = (o # "ok")
            /\ faults' = faults + Cost(o, FALSE)
            /\ hist' = [hist EXCEPT !.queryFailed = (o # "ok")]
            /\ UNCHANGED tasks
     ELSE /\ tasks' = IF runner = "accounts"
                      THEN update_task(tasks, task_id, 0, 0, 0, <<>>)
                      ELSE tasks
          /\ UNCHANGED <<existing_emails, sess_dirty, faults, hist>>
  /\ chunk_start' = 0
  /\ pc' = "chunk"
  /\ UNCHANGED <<cfgVars, postgres_password, db_rows, task_id, countVars,
                 i, actual_idx, batch_len, batch_valid, crudVars, exc, ret>>
  /\ UNCHANGED auxVars

\* for chunk_start in range(0, len(data_list), CHUNK_SIZE)
ChunkHead ==
  /\ pc = "chunk"
  /\ IF chunk_start < Len(data_list)
     THEN /\ i' = 0
          /\ pc' = IF runner \in AuthRunners /\ USE_OAUTH /\ chunk_start > 0
                   THEN "refresh" ELSE "batch"
     ELSE /\ pc' = "return"
          /\ UNCHANGED i
  /\ UNCHANGED <<cfgVars, postgres_password, dbVars, tasks, task_id, countVars,
                 existing_emails, chunk_start, actual_idx, batch_len,
                 batch_valid, crudVars, exc, ret, faults, hist>>
  /\ UNCHANGED auxVars

\* if settings.USE_OAUTH and chunk_start > 0: refresh_oauth_token()
MidRunRefresh ==
  /\ pc = "refresh"
  /\ \E stale \in BOOLEAN, sdk \in SdkOutcomes :
       LET r == refresh_oauth_token(postgres_password, stale, sdk)
       IN /\ postgres_password' = r.password
          /\ hist' = [hist EXCEPT !.refreshed = <<r.result>>,
                                  !.refreshes = @ + 1]
  /\ pc' = "batch"
  /\ UNCHANGED <<cfgVars, dbVars, tasks, task_id, countVars, existing_emails,
                 loopVars, crudVars, exc, ret, faults>>
  /\ UNCHANGED auxVars

\* The batch cut from the start of the chunk, not at a.
BatchIndexesOfChunkStart(a, n) == [k \in 1..n |-> chunk_start + k - 1]

\* batch = chunk_data[i:i + BATCH_SIZE] with actual_idx = chunk_start + i:
\* the indexes in data_list of the n records of the batch starting at a.
BatchIndexes(a, n) == [k \in 1..n |-> a + k - 1]

\* for i in range(0, len(chunk_data), BATCH_SIZE): the batch is cut and its
\* rows are validated.  In the per-batch runners the insert block follows;
\* in the others the loop body ends here and the next batch is validated.
Validate ==
  /\ pc = "batch"
  /\ i < chunk_len
  /\ LET a == chunk_start + i
         n == Min(BATCH_SIZE, chunk_len - i)
         idxs == BatchIndexes(a, n)
         good == SelectSeq(idxs, LAMBDA x : data_list[x + 1].valid)
         bad == SelectSeq(idxs, LAMBDA x : ~data_list[x + 1].valid)
         errs == [k \in 1..Len(bad) |->
                    ErrorRecord(bad[k] + ROW_OFFSET, "validation", bad[k])]
     IN /\ actual_idx' = a
        /\ batch_len' = n
        /\ batch_valid' = good
        /\ failed_count' = failed_count + Len(bad)
        /\ failed_records' = failed_records \o errs
        /\ hist' = [hist EXCEPT !.validated = @ + n,
                                !.batches = @ + 1,
                                !.seen = @ \o idxs,
                                !.snapS = success_count,
                                !.snapF = failed_count + Len(bad),
                                !.bulkFailed = FALSE,
                                !.indivTried = 0,
                                !.indivFailed = 0,
                                !.bulkAttempts = 0]
        /\ IF runner \in PerBatchRunners
           THEN /\ pc' = IF good # <<>> THEN "insert" ELSE "update"
                /\ UNCHANGED i
           ELSE /\ pc' = "batch"
                /\ i' = i + BATCH_SIZE
  /\ UNCHANGED <<cfgVars, postgres_password, dbVars, tasks, task_id,
                 success_count, existing_emails, chunk_start, crudVars, exc,
                 ret, faults>>
  /\ UNCHANGED auxVars

\* The batch loop of a chunk is over.  Where the insert block sits at the
\* chunk level it runs now, on the last batch, if that batch has valid rows.
EndOfBatches ==
  /\ pc = "batch"
  /\ i >= chunk_len
  /\ IF runner \notin PerBatchRunners /\ batch_valid # <<>>
     THEN /\ pc' = "insert"
          /\ UNCHANGED chunk_start
     ELSE /\ pc' = "chunk"
          /\ chunk_start' = chunk_start + CHUNK_SIZE
  /\ UNCHANGED <<cfgVars, postgres_password, dbVars, tasks, task_id, countVars,
                 existing_emails, i, actual_idx, batch_len, batch_valid,
                 crudVars, exc, ret, faults, hist>>
  /\ UNCHANGED auxVars

\* task_manager.update_task(task_id, processed=actual_idx + len(batch),
\*     success=success_count, failed=failed_count, errors=failed_records[-10:])
UpdateProgress ==
  /\ pc = "update"
  /\ tasks' = update_task(tasks, task_id, ProcessedArg, success_count,
                          failed_count, LastN(failed_records, LIVE_ERRORS))
  /\ hist' = [hist EXCEPT !.updates = @ + 1]
  /\ IF runner \in PerBatchRunners
     THEN /\ i' = i + BATCH_SIZE
          /\ pc' = "batch"
          /\ UNCHANGED chunk_start
     ELSE /\ chunk_start' = chunk_start + CHUNK_SIZE
          /\ pc' = "chunk"
          /\ UNCHANGED i
  /\ UNCHANGED <<cfgVars, postgres_password, dbVars, task_id, countVars,
                 existing_emails, actual_idx, batch_len, batch_valid, crudVars,
                 exc, ret, faults>>
  /\ UNCHANGED auxVars

\* return {"success": True, ..., "failed_records": ...}; finally: db.close()
ReturnResult ==
  /\ pc = "return"
  /\ ret' = <<FinalResult>>
  /\ pc' = "finalize"
  /\ UNCHANGED <<cfgVars, postgres_password, dbVars, tasks, task_id, countVars,
                 existing_emails, loopVars, crudVars, exc, faults, hist>>
  /\ UNCHANGED auxVars

\* run_in_thread: the runner returned a dict:
\*   self.complete_task(task_id, result=result,
\*       success_count=result.get('success_count', 0),
\*       failed_count=result.get('failed_count', 0),
\*       errors=result.get('failed_records', []))
CompleteTask ==
  /\ pc = "finalize"
  /\ tasks' = complete_task(tasks, task_id, ret, ret[1].success_count,
                            ret[1].failed_count,
                            IF ret[1].has_failed_records
                            THEN ret[1].failed_records
                            ELSE <<>>)
  /\ pc' = "done"
  /\ UNCHANGED <<cfgVars, postgres_password, dbVars, task_id, countVars,
                 existing_emails, loopVars, crudVars, exc, ret, faults, hist>>
  /\ UNCHANGED auxVars

\* accounts: except Exception as e: task_manager.fail_task(task_id, str(e));
\*           return {"success": False, ...}
AccountsExcept ==
  /\ pc = "raised"
  /\ runner = "accounts"
  /\ tasks' = fail_task(tasks, task_id, "exception")
  /\ ret' = <<AccountsFailedResult>>
  /\ exc' = "none"
  /\ pc' = "finalize"
  /\ hist' = [hist EXCEPT !.escaped = TRUE]
  /\ UNCHANGED <<cfgVars, postgres_password, dbVars, task_id, countVars,
                 existing_emails, loopVars, crudVars, faults>>
  /\ UNCHANGED auxVars

\* run_in_thread: except Exception as e: self.fail_task(task_id, str(e))
\* (the other runners let the exception through: tasks re-raises it, the
\* rest have only a finally)
RunInThreadExcept ==
  /\ pc = "raised"
  /\ runner # "accounts"
  /\ tasks' = fail_task(tasks, task_id, "exception")
  /\ exc' = "none"
  /\ pc' = "done"
  /\ hist' = [hist EXCEPT !.escaped = TRUE]
  /\ UNCHANGED <<cfgVars, postgres_password, dbVars, task_id, countVars,
                 existing_emails, loopVars, crudVars, ret, faults>>
  /\ UNCHANGED auxVars


(***************************************************************************)
(* One-by-one loops: position j of a sequence has been handled.            *)
(***************************************************************************)
Tried(h, failed) ==
  [h EXCEPT !.indivTried = @ + 1,
            !.indivFailed = @ + (IF failed THEN 1 ELSE 0)]

(***************************************************************************)
(* contacts: crud.bulk_create_contacts and the runner's handlers.          *)
(***************************************************************************)
\* bulk_create_contacts, first loop: duplicates of existing_emails (the
\* runner always passes the set, so the seen_emails branch never rejects
\* anything the first test lets through).
ContactsFilter ==
  /\ pc = "insert"
  /\ runner = "contacts"
  /\ LET d == Dedup(batch_valid, 1, existing_emails, {}, <<>>, <<>>)
     IN /\ existing_emails' = d.existing
        /\ to_insert' = d.unique
        /\ bulk_failed' = d.failed
        /\ pc' = IF d.unique # <<>> THEN "bulk" ELSE "crud_ret"
  /\ count' = 0
  /\ j' = 1
  /\ UNCHANGED <<cfgVars, postgres_password, dbVars, tasks, task_id, countVars,
                 loopVars, attempt, crud_attempt, exc, ret, faults, hist>>
  /\ UNCHANGED auxVars

\* bulk_create_contacts: db.bulk_save_objects(unique_contacts); db.commit()
\*   except (IntegrityError, OperationalError): db.rollback(), one by one;
\* any other exception leaves the function; the runner's `except Exception`
\* rolls back and inserts batch_contacts one by one.  An OperationalError
\* raised by the rollback reaches the runner's `except OperationalError`.
ContactsBulk ==
  /\ pc = "bulk"
  /\ runner = "contacts"
  /\ LET conflict == UniqueConflict(to_insert)
     IN \E o \in DbOutcomes(conflict) :
          LET f == faults + Cost(o, conflict)
          IN \E rb \in RbOutcomes(o, f) :
               /\ faults' = f + (IF rb = "raise" THEN 1 ELSE 0)
               /\ hist' = [hist EXCEPT !.bulkFailed = (o # "ok"),
                                       !.rollbackRaised = @ \/ rb = "raise"]
               /\ IF o = "ok"
                  THEN /\ rb = "ok"
                       /\ db_rows' = RowsAfter(to_insert)
                       /\ count' = Len(to_insert)
                       /\ pc' = "crud_ret"
                       /\ UNCHANGED <<sess_dirty, exc>>
                  ELSE IF IsIntegrityOrOperational(o)
                  THEN /\ pc' = IF rb = "ok" THEN "crud_indiv" ELSE "ep_operr"
                       /\ exc' = IF rb = "ok" THEN "none" ELSE o
                       /\ sess_dirty' = (rb = "raise")
                       /\ UNCHANGED <<db_rows, count>>
                  ELSE /\ rb = "ok"
                       /\ pc' = "ep_indiv"
                       /\ sess_dirty' = FALSE
                       /\ UNCHANGED <<db_rows, count, exc>>
  /\ j' = 1
  /\ UNCHANGED <<cfgVars, postgres_password, tasks, task_id, countVars,
                 existing_emails, loopVars, to_insert, bulk_failed, attempt,
                 crud_attempt, ret>>
  /\ UNCHANGED auxVars

\* bulk_create_contacts, fallback: for contact in unique_contacts:
\*     db.add(db_contact); db.commit(); success_count += 1
\*   except (IntegrityError, OperationalError): db.rollback(); failed.append
ContactsCrudIndividual ==
  /\ pc = "crud_indiv"
  /\ runner = "contacts"
  /\ LET x == to_insert[j]
         conflict == KeyOf(x) \in StoredKeys
         last == (j = Len(to_insert))
     IN \E o \in DbOutcomes(conflict) :
          LET f == faults + Cost(o, conflict)
          IN \E rb \in RbOutcomes(o, f) :
               /\ faults' = f + (IF rb = "raise" THEN 1 ELSE 0)
               /\ hist' = [Tried(hist, o # "ok") EXCEPT
                             !.rollbackRaised = @ \/ rb = "raise"]
               /\ IF o = "ok"
                  THEN /\ rb = "ok"
                       /\ db_rows' = RowsAfter(<<x>>)
                       /\ count' = count + 1
                       /\ j' = j + 1
                       /\ pc' = IF last THEN "crud_ret" ELSE "crud_indiv"
                       /\ UNCHANGED <<bulk_failed, sess_dirty, exc>>
                  ELSE IF IsIntegrityOrOperational(o)
                  THEN IF rb = "ok"
                       THEN /\ bulk_failed' =
                                 Append(bulk_failed,
                                        [email |-> KeyOf(x), error |-> "db",
                                         rec |-> x, pos |-> j])
                            /\ j' = j + 1
                            /\ pc' = IF last THEN "crud_ret" ELSE "crud_indiv"
                            /\ UNCHANGED <<db_rows, count, sess_dirty, exc>>
                       ELSE /\ pc' = "ep_operr"
                            /\ exc' = o
                            /\ UNCHANGED <<db_rows, count, bulk_failed, j,
                                           sess_dirty>>
                  ELSE /\ rb = "ok"
                       /\ pc' = "ep_indiv"
                       /\ j' = 1
                       /\ sess_dirty' = FALSE
                       /\ UNCHANGED <<db_rows, count, bulk_failed, exc>>
  /\ UNCHANGED <<cfgVars, postgres_password, tasks, task_id, countVars,
                 existing_emails, loopVars, to_insert, attempt, crud_attempt,
                 ret>>
  /\ UNCHANGED auxVars

\* runner, after bulk_create_contacts returned (batch_success, bulk_failed):
\*   success_count += batch_success
\*   for bulk_fail in bulk_failed: the row is looked up by e-mail in
\*   batch_contacts, numbered from actual_idx + 2.
ContactsAfterBulk ==
  /\ pc = "crud_ret"
  /\ runner = "contacts"
  /\ success_count' = success_count + count
  /\ failed_count' = failed_count + Len(bulk_failed)
  /\ failed_records' = failed_records \o
       [k \in 1..Len(bulk_failed) |->
          ErrorRecord(RowOfPosition(actual_idx,
                                    FirstPosition(batch_valid,
                                                  bulk_failed[k].email)),
                      bulk_failed[k].error, bulk_failed[k].rec)]
  /\ pc' = "update"
  /\ UNCHANGED <<cfgVars, postgres_password, dbVars, tasks, task_id,
                 existing_emails, loopVars, crudVars, exc, ret, faults, hist>>
  /\ UNCHANGED auxVars

\* except OperationalError: db.rollback(); task = get_task(task_id);
\*   if task: task.fail(...); return {"success": False, ...}
\* (an exception of the rollback leaves the runner)
ContactsConnectionError ==
  /\ pc = "ep_operr"
  /\ runner = "contacts"
  /\ \E rb \in RbOutcomes(exc, faults) :
       /\ faults' = faults + (IF rb = "raise" THEN 1 ELSE 0)
       /\ hist' = [hist EXCEPT !.rollbackRaised = @ \/ rb = "raise",
                               !.unlockedWrites =
                                 @ + (IF rb = "ok" THEN 1 ELSE 0)]
       /\ IF rb = "ok"
          THEN /\ tasks' = direct_fail(tasks, task_id, "Connection error")
               /\ ret' = <<EarlyResult>>
               /\ pc' = "finalize"
               /\ exc' = "none"
               /\ sess_dirty' = FALSE
          ELSE /\ pc' = "raised"
               /\ UNCHANGED <<tasks, ret, exc, sess_dirty>>
  /\ UNCHANGED <<cfgVars, postgres_password, db_rows, task_id, countVars,
                 existing_emails, loopVars, crudVars>>
  /\ UNCHANGED auxVars

\* except Exception: db.rollback(); for idx, contact in
\*   enumerate(batch_contacts, start=actual_idx+2): crud.create_contact(...)
\*     except OperationalError: rollback, task.fail, return
\*     except Exception: db.rollback(); failed_count += 1; append(row idx)
ContactsFallbackIndividual ==
  /\ pc = "ep_indiv"
  /\ runner = "contacts"
  /\ LET x == batch_valid[j]
         conflict == KeyOf(x) \in StoredKeys
         last == (j = Len(batch_valid))
     IN \E o \in DbOutcomes(conflict) :
          /\ faults' = faults + Cost(o, conflict)
          /\ hist' = Tried(hist, o # "ok")
          /\ IF o = "ok"
             THEN /\ db_rows' = RowsAfter(<<x>>)
                  /\ success_count' = success_count + 1
                  /\ j' = j + 1
                  /\ pc' = IF last THEN "update" ELSE "ep_indiv"
                  /\ UNCHANGED <<failed_count, failed_records, exc>>
             ELSE IF o \in OperationalKinds
             THEN /\ pc' = "ep_operr"
                  /\ exc' = o
                  /\ UNCHANGED <<db_rows, countVars, j>>
             ELSE /\ failed_count' = failed_count + 1
                  /\ failed_records' =
                       Append(failed_records,
                              ErrorRecord(RowOfPosition(actual_idx, j), "db", x))
                  /\ j' = j + 1
                  /\ pc' = IF last THEN "update" ELSE "ep_indiv"
                  /\ UNCHANGED <<db_rows, success_count, exc>>
  /\ UNCHANGED <<cfgVars, postgres_password, sess_dirty, tasks, task_id,
                 existing_emails, loopVars, to_insert, bulk_failed, count,
                 attempt, crud_attempt, ret>>
  /\ UNCHANGED auxVars


(***************************************************************************)
(* leads: the runner's own duplicate filter, bulk insert and fallback.     *)
(***************************************************************************)
\* existing = db.query(Lead.email).filter(Lead.email.in_(batch_emails)).all()
\* for idx, lead in enumerate(batch_leads, start=actual_idx+2):
\*     if email in existing_emails: failed_count += 1; append(row idx)
\*     else: leads_to_insert.append(lead); existing_emails.add(email)
\* A failure of the query is caught by the block's `except Exception`.
LeadsFilter ==
  /\ pc = "insert"
  /\ runner = "leads"
  /\ \E o \in DbOutcomes(FALSE) :
       LET f == faults + Cost(o, FALSE)
       IN \E rb \in RbOutcomes(o, f) :
            /\ faults' = f + (IF rb = "raise" THEN 1 ELSE 0)
            /\ hist' = [hist EXCEPT !.queryFailed = @ \/ o # "ok",
                                    !.rollbackRaised = @ \/ rb = "raise"]
            /\ IF o = "ok"
               THEN LET d == Dedup(batch_valid, 1, StoredKeys, {}, <<>>, <<>>)
                    IN /\ rb = "ok"
                       /\ to_insert' = d.unique
                       /\ failed_count' = failed_count + Len(d.failed)
                       /\ failed_records' = failed_records \o
                            [k \in 1..Len(d.failed) |->
                               ErrorRecord(RowOfPosition(actual_idx,
                                                         d.failed[k].pos),
                                           "duplicate", d.failed[k].rec)]
                       /\ pc' = IF d.unique # <<>> THEN "bulk" ELSE "update"
                       /\ UNCHANGED <<sess_dirty, exc>>
               ELSE /\ pc' = IF rb = "ok" THEN "ep_indiv" ELSE "raised"
                    /\ exc' = IF rb = "ok" THEN "none" ELSE o
                    /\ sess_dirty' = FALSE
                    /\ UNCHANGED <<to_insert, failed_count, failed_records>>
  /\ j' = 1
  /\ UNCHANGED <<cfgVars, postgres_password, db_rows, tasks, task_id,
                 success_count, existing_emails, loopVars, bulk_failed, count,
                 attempt, crud_attempt, ret>>
  /\ UNCHANGED auxVars

\* db.execute(insert(Lead), insert_data); db.commit();
\* success_count += len(insert_data)
\*   except Exception: db.rollback(); fall back to batch_leads one by one
LeadsBulk ==
  /\ pc = "bulk"
  /\ runner = "leads"
  /\ \E o \in DbOutcomes(FALSE) :
       LET f == faults + Cost(o, FALSE)
       IN \E rb \in RbOutcomes(o, f) :
            /\ faults' = f + (IF rb = "raise" THEN 1 ELSE 0)
            /\ hist' = [hist EXCEPT !.bulkFailed = (o # "ok"),
                                    !.rollbackRaised = @ \/ rb = "raise"]
            /\ IF o = "ok"
               THEN /\ rb = "ok"
                    /\ db_rows' = RowsAfter(to_insert)
                    /\ success_count' = success_count + Len(to_insert)
                    /\ pc' = "update"
                    /\ UNCHANGED <<sess_dirty, exc>>
               ELSE /\ pc' = IF rb = "ok" THEN "ep_indiv" ELSE "raised"
                    /\ exc' = IF rb = "ok" THEN "none" ELSE o
                    /\ sess_dirty' = FALSE
                    /\ UNCHANGED <<db_rows, success_count>>
  /\ j' = 1
  /\ UNCHANGED <<cfgVars, postgres_password, tasks, task_id, failed_count,
                 failed_records, existing_emails, loopVars, to_insert,
                 bulk_failed, count, attempt, crud_attempt, ret>>
  /\ UNCHANGED auxVars

(***************************************************************************)
(* accounts: bulk insert and the fallback with its name lookup.            *)
(***************************************************************************)
\* db.execute(insert(Account).values(batch_data)); db.commit()
\*   except Exception: db.rollback(); one by one
AccountsBulk ==
  /\ pc = "insert"
  /\ runner = "accounts"
  /\ LET conflict == UniqueConflict(batch_valid)
     IN \E o \in DbOutcomes(conflict) :
          LET f == faults + Cost(o, conflict)
          IN \E rb \in RbOutcomes(o, f) :
               /\ faults' = f + (IF rb = "raise" THEN 1 ELSE 0)
               /\ hist' = [hist EXCEPT !.bulkFailed = (o # "ok"),
                                       !.rollbackRaised = @ \/ rb = "raise"]
               /\ IF o = "ok"
                  THEN /\ rb = "ok"
                       /\ db_rows' = RowsAfter(batch_valid)
                       /\ success_count' = success_count + Len(batch_valid)
                       /\ pc' = "update"
                       /\ UNCHANGED <<sess_dirty, exc>>
                  ELSE /\ pc' = IF rb = "ok" THEN "ep_indiv" ELSE "raised"
                       /\ exc' = IF rb = "ok" THEN "none" ELSE o
                       /\ sess_dirty' = FALSE
                       /\ UNCHANGED <<db_rows, success_count>>
  /\ j' = 1
  /\ UNCHANGED <<cfgVars, postgres_password, tasks, task_id, failed_count,
                 failed_records, existing_emails, loopVars, to_insert,
                 bulk_failed, count, attempt, crud_attempt, ret>>
  /\ UNCHANGED auxVars

\* for idx, data in enumerate(batch_data, start=actual_idx+2):
\*     existing = db.query(Account).filter(name == ...).first()
\*     if existing: failed_count += 1; append 'Duplicate account name'
\*     else: db.add; db.commit; success_count += 1
\*   except Exception: db.rollback(); failed_count += 1; append
AccountsIndividual ==
  /\ pc = "ep_indiv"
  /\ runner = "accounts"
  /\ LET x == batch_valid[j]
         last == (j = Len(batch_valid))
     IN \E o \in DbOutcomes(FALSE) :
          LET f == faults + Cost(o, FALSE)
          IN \E rb \in RbOutcomes(o, f) :
               /\ faults' = f + (IF rb = "raise" THEN 1 ELSE 0)
               /\ hist' = [Tried(hist, o # "ok" \/ KeyOf(x) \in StoredKeys)
                             EXCEPT !.rollbackRaised = @ \/ rb = "raise"]
               /\ IF rb = "raise"
                  THEN /\ pc' = "raised"
                       /\ exc' = o
                       /\ UNCHANGED <<db_rows, countVars, j>>
                  ELSE /\ pc' = IF last THEN "update" ELSE "ep_indiv"
                       /\ j' = j + 1
                       /\ UNCHANGED exc
                       /\ IF o # "ok"
                          THEN /\ failed_count' = failed_count + 1
                               /\ failed_records' =
                                    Append(failed_records,
                                           ErrorRecord(RowOfPosition(actual_idx, j),
                                                       "db", x))
                               /\ UNCHANGED <<db_rows, success_count>>
                          ELSE IF KeyOf(x) \in StoredKeys
                          THEN /\ failed_count' = failed_count + 1
                               /\ failed_records' =
                                    Append(failed_records,
                                           ErrorRecord(RowOfPosition(actual_idx, j),
                                                       "duplicate", x))
                               /\ UNCHANGED <<db_rows, success_count>>
                          ELSE /\ db_rows' = RowsAfter(<<x>>)
                               /\ success_count' = success_count + 1
                               /\ UNCHANGED <<failed_count, failed_records>>
  /\ UNCHANGED <<cfgVars, postgres_password, sess_dirty, tasks, task_id,
                 existing_emails, loopVars, to_insert, bulk_failed, count,
                 attempt, crud_attempt, ret>>
  /\ UNCHANGED auxVars


(***************************************************************************)
(* opportunities, calendar, email_campaigns: crud.bulk_create_* returns a  *)
(* count only.                                                             *)
(***************************************************************************)
\* bulk_create_*: db.bulk_save_objects(...); db.commit(); return len(...)
\*   except (IntegrityError, OperationalError): db.rollback(); one by one
\* Any other exception, or one raised by the rollback, leaves the function
\* with the session not rolled back, and the runner's `except Exception`
\* starts its own one-by-one loop without a rollback.
CountingBulk ==
  /\ pc = "insert"
  /\ runner \in CountingWriters
  /\ \E o \in DbOutcomes(FALSE) :
       LET f == faults + Cost(o, FALSE)
       IN \E rb \in RbOutcomes(o, f) :
            /\ faults' = f + (IF rb = "raise" THEN 1 ELSE 0)
            /\ hist' = [hist EXCEPT !.bulkFailed = (o # "ok"),
                                    !.rollbackRaised = @ \/ rb = "raise"]
            /\ IF o = "ok"
               THEN /\ rb = "ok"
                    /\ db_rows' = RowsAfter(batch_valid)
                    /\ success_count' = success_count + Len(batch_valid)
                    /\ pc' = "update"
                    /\ UNCHANGED sess_dirty
               ELSE IF IsIntegrityOrOperational(o) /\ rb = "ok"
               THEN /\ pc' = "crud_indiv"
                    /\ sess_dirty' = FALSE
                    /\ UNCHANGED <<db_rows, success_count>>
               ELSE /\ pc' = "ep_indiv"
                    /\ sess_dirty' = TRUE
                    /\ UNCHANGED <<db_rows, success_count>>
  /\ to_insert' = batch_valid
  /\ count' = 0
  /\ j' = 1
  /\ UNCHANGED <<cfgVars, postgres_password, tasks, task_id, failed_count,
                 failed_records, existing_emails, loopVars, bulk_failed,
                 attempt, crud_attempt, exc, ret>>
  /\ UNCHANGED auxVars

\* bulk_create_*, fallback: for obj in db_objects: db.add; db.commit;
\*     count += 1   except (IntegrityError, OperationalError): db.rollback();
\*     continue     -- the record is dropped without a trace
\* return count; the runner adds it to success_count.
CountingCrudIndividual ==
  /\ pc = "crud_indiv"
  /\ runner \in CountingWriters
  /\ LET x == to_insert[j]
         last == (j = Len(to_insert))
     IN \E o \in DbOutcomes(FALSE) :
          LET f == faults + Cost(o, FALSE)
          IN \E rb \in RbOutcomes(o, f) :
               /\ faults' = f + (IF rb = "raise" THEN 1 ELSE 0)
               /\ hist' = [Tried(hist, o # "ok") EXCEPT
                             !.rollbackRaised = @ \/ rb = "raise"]
               /\ IF (o = "ok" \/ IsIntegrityOrOperational(o)) /\ rb = "ok"
                  THEN LET c == count + (IF o = "ok" THEN 1 ELSE 0)
                       IN /\ db_rows' = IF o = "ok" THEN RowsAfter(<<x>>)
                                        ELSE db_rows
                          /\ count' = c
                          /\ j' = j + 1
                          /\ pc' = IF last THEN "update" ELSE "crud_indiv"
                          /\ success_count' = IF last THEN success_count + c
                                              ELSE success_count
                  ELSE /\ pc' = "ep_indiv"
                       /\ j' = 1
                       /\ UNCHANGED <<db_rows, count, success_count>>
  /\ UNCHANGED <<cfgVars, postgres_password, sess_dirty, tasks, task_id,
                 failed_count, failed_records, existing_emails, loopVars,
                 to_insert, bulk_failed, attempt, crud_attempt, exc, ret>>
  /\ UNCHANGED auxVars

(***************************************************************************)
(* tasks: the retry loop of the runner around the retry loop of            *)
(* crud.bulk_create_tasks.                                                 *)
(***************************************************************************)
\* if batch_tasks: max_retries = 3; for attempt in range(max_retries):
TasksEnter ==
  /\ pc = "insert"
  /\ runner = "tasks"
  /\ attempt' = 0
  /\ crud_attempt' = 0
  /\ to_insert' = batch_valid
  /\ pc' = "bulk"
  /\ UNCHANGED <<cfgVars, postgres_password, dbVars, tasks, task_id, countVars,
                 existing_emails, loopVars, bulk_failed, count, j, exc, ret,
                 faults, hist>>
  /\ UNCHANGED auxVars

\* bulk_create_tasks, one turn of `for attempt in range(max_retries)`:
\*   db.bulk_save_objects(db_tasks); db.commit(); return len(db_tasks)
\*   except OperationalError: db.rollback();
\*       if _is_connection_error(e) and attempt < max_retries - 1: continue
\*       else: raise
\*   except Exception: db.rollback(); raise
TasksBulk ==
  /\ pc = "bulk"
  /\ runner = "tasks"
  /\ \E o \in DbOutcomes(FALSE) :
       LET f == faults + Cost(o, FALSE)
       IN \E rb \in RbOutcomes(o, f) :
            /\ faults' = f + (IF rb = "raise" THEN 1 ELSE 0)
            /\ hist' = [hist EXCEPT !.bulkFailed = (o # "ok"),
                                    !.bulkAttempts = @ + 1,
                                    !.rollbackRaised = @ \/ rb = "raise"]
            /\ IF o = "ok"
               THEN /\ rb = "ok"
                    /\ db_rows' = RowsAfter(to_insert)
                    /\ success_count' = success_count + Len(to_insert)
                    /\ pc' = "update"
                    /\ UNCHANGED <<crud_attempt, exc, sess_dirty>>
               ELSE IF /\ o \in OperationalKinds
                       /\ rb = "ok"
                       /\ _is_connection_error(o)
                       /\ crud_attempt < max_retries - 1
               THEN /\ crud_attempt' = crud_attempt + 1
                    /\ pc' = "bulk"
                    /\ sess_dirty' = FALSE
                    /\ UNCHANGED <<db_rows, success_count, exc>>
               ELSE /\ exc' = o
                    /\ pc' = "t_except"
                    /\ sess_dirty' = (rb = "raise")
                    /\ UNCHANGED <<db_rows, success_count, crud_attempt>>
  /\ UNCHANGED <<cfgVars, postgres_password, tasks, task_id, failed_count,
                 failed_records, existing_emails, loopVars, to_insert,
                 bulk_failed, count, j, attempt, ret>>
  /\ UNCHANGED auxVars

\* runner: except OperationalError as e:
\*     if is_connection_error and attempt < max_retries - 1:
\*         db.close(); db = SessionLocal(); continue
\*     else: one by one; break
\* except Exception: one by one; break
TasksExcept ==
  /\ pc = "t_except"
  /\ runner = "tasks"
  /\ IF /\ exc \in OperationalKinds
        /\ is_connection_error(exc)
        /\ attempt < max_retries - 1
     THEN /\ attempt' = attempt + 1
          /\ crud_attempt' = 0
          /\ sess_dirty' = FALSE
          /\ pc' = "bulk"
          /\ UNCHANGED j
     ELSE /\ j' = 1
          /\ pc' = "ep_indiv"
          /\ UNCHANGED <<attempt, crud_attempt, sess_dirty>>
  /\ exc' = "none"
  /\ UNCHANGED <<cfgVars, postgres_password, db_rows, tasks, task_id,
                 countVars, existing_emails, loopVars, to_insert, bulk_failed,
                 count, ret, faults, hist>>
  /\ UNCHANGED auxVars

(***************************************************************************)
(* The runner-level one-by-one loop of leads, opportunities, tasks,        *)
(* calendar and email_campaigns: crud.create_*(db, obj) per record, with   *)
(* no rollback in the handler.                                             *)
(***************************************************************************)
\* for idx_in_batch, obj in enumerate(batch_objs, start=actual_idx+2):
\*     try: create_*(db, obj); success_count += 1
\*     except Exception: failed_count += 1; append(row idx_in_batch)
FallbackIndividual ==
  /\ pc = "ep_indiv"
  /\ runner \notin {"contacts", "accounts"}
  /\ LET x == batch_valid[j]
         last == (j = Len(batch_valid))
     IN \E o \in DbOutcomes(FALSE) :
          /\ faults' = faults + Cost(o, FALSE)
          /\ hist' = Tried(hist, o # "ok")
          /\ IF o = "ok"
             THEN /\ db_rows' = RowsAfter(<<x>>)
                  /\ success_count' = success_count + 1
                  /\ UNCHANGED <<failed_count, failed_records>>
             ELSE /\ failed_count' = failed_count + 1
                  /\ failed_records' =
                       Append(failed_records,
                              ErrorRecord(RowOfPosition(actual_idx, j), "db", x))
                  /\ UNCHANGED <<db_rows, success_count>>
          /\ j' = j + 1
          /\ pc' = IF last THEN "update" ELSE "ep_indiv"
  /\ UNCHANGED <<cfgVars, postgres_password, sess_dirty, tasks, task_id,
                 existing_emails, loopVars, to_insert, bulk_failed, count,
                 attempt, crud_attempt, exc, ret>>
  /\ UNCHANGED auxVars

(***************************************************************************)
(* After the worker: the thread is gone, the clock runs and the cleanup    *)
(* thread sweeps the registry.                                             *)
(***************************************************************************)
\* run_in_thread returns: its locals and those of the runner are gone, the
\* session is closed.  The registry, the storage and the database globals
\* stay.
WorkerExit ==
  /\ pc = "done"
  /\ pc' = "exited"
  /\ sess_dirty' = FALSE
  /\ success_count' = 0
  /\ failed_count' = 0
  /\ failed_records' = <<>>
  /\ existing_emails' = {}
  /\ chunk_start' = 0
  /\ i' = 0
  /\ actual_idx' = 0
  /\ batch_len' = 0
  /\ batch_valid' = <<>>
  /\ to_insert' = <<>>
  /\ bulk_failed' = <<>>
  /\ count' = 0
  /\ j' = 1
  /\ attempt' = 0
  /\ crud_attempt' = 0
  /\ exc' = "none"
  /\ ret' = <<>>
  /\ faults' = 0
  /\ hist' = [NoHist EXCEPT !.finished =
                 <<[status |-> tasks[task_id].status,
                    at |-> tasks[task_id].completed_at[1]]>>]
  /\ UNCHANGED <<cfgVars, postgres_password, db_rows, tasks, task_id, auxVars>>

\* The lengths of time the clock is moved by: half a pause of the cleanup
\* thread, and the retention period.
Durations == {SWEEP_WAIT \div 2, _cleanup_interval}

\* cleanup_loop: while True: self.cleanup_old_tasks();
\* threading.Event().wait(300).  d seconds go by and the cleanup thread
\* makes its sweeps on schedule; tasks only grow older, so the sweeps made
\* in the meantime remove what the last of them, at time `last`, removes.
Elapse ==
  /\ pc = "exited"
  /\ ticks < MaxTicks
  /\ \E d \in Durations :
       /\ now' = now + d
       /\ IF next_sweep <= now + d
          THEN LET last == next_sweep +
                           SWEEP_WAIT * ((now + d - next_sweep) \div SWEEP_WAIT)
               IN /\ tasks' = cleanup_old_tasks(tasks, last)
                  /\ next_sweep' = last + SWEEP_WAIT
          ELSE UNCHANGED <<tasks, next_sweep>>
  /\ ticks' = ticks + 1
  /\ UNCHANGED <<cfgVars, postgres_password, dbVars, pc, task_id, countVars,
                 existing_emails, loopVars, crudVars, exc, ret, faults, hist,
                 tmVars, rfVars>>

(***************************************************************************)
(* TokenManager.get_token.  self._lock is a threading.Lock: it is not      *)
(* reentrant, and a thread that asks for it waits until it is free, also   *)
(* when the holder is that thread itself.  A call is followed from one     *)
(* point where it can wait to the next.                                    *)
(***************************************************************************)
uploadVars == <<cfgVars, postgres_password, dbVars, tasks, pc, task_id,
                countVars, existing_emails, loopVars, crudVars, exc, ret,
                faults, hist>>

\* refresh_loop: sleep_time = max(60, self.refresh_interval - 60)
sleep_time == IF refresh_interval - 60 > 60 THEN refresh_interval - 60 ELSE 60

\* The cached token counts as stale as soon as any time has gone by.
needs_refresh_any_delay(force, current_time) ==
  \/ force
  \/ _token = "None"
  \/ current_time - _last_refresh > 0

\* needs_refresh = force_refresh or self._token is None
\*                 or time_since_refresh > self.refresh_interval
needs_refresh(force, current_time) ==
  \/ force
  \/ _token = "None"
  \/ current_time - _last_refresh > refresh_interval

\* The fallback is returned to the caller but not kept.
get_token_store_uncached(tok, current_time) ==
  IF tok # "None"
  THEN [token |-> tok, last |-> current_time, out |-> "returned", value |-> tok]
  ELSE IF fallback_password # ""
  THEN [token |-> _token, last |-> _last_refresh, out |-> "returned",
        value |-> fallback_password]
  ELSE [token |-> _token, last |-> _last_refresh, out |-> "raised",
        value |-> "ConnectionError"]

\* get_token after new_token = self._fetch_oauth_token(): the new token is
\* cached; without one the fallback password is cached if there is one, and
\* ConnectionError is raised otherwise.  The call returns self._token.
get_token_store(tok, current_time) ==
  IF tok # "None"
  THEN [token |-> tok, last |-> current_time, out |-> "returned", value |-> tok]
  ELSE IF fallback_password # ""
  THEN [token |-> fallback_password, last |-> current_time,
        out |-> "returned", value |-> fallback_password]
  ELSE [token |-> _token, last |-> _last_refresh, out |-> "raised",
        value |-> "ConnectionError"]

\* A thread calls get_token(force_refresh) and reaches `with self._lock`.
GetTokenCall(th) ==
  /\ pc = "token"
  /\ tm_pc[th] \in {"idle", "returned", "raised"}
  /\ calls < MaxCalls
  /\ \E force \in BOOLEAN : force_refresh' = [force_refresh EXCEPT ![th] = force]
  /\ tm_pc' = [tm_pc EXCEPT ![th] = "acquire"]
  /\ new_token' = [new_token EXCEPT ![th] = "unset"]
  /\ tm_ret' = [tm_ret EXCEPT ![th] = "None"]
  /\ calls' = calls + 1
  /\ UNCHANGED <<uploadVars, clockVars, DATABRICKS_SDK_AVAILABLE,
                 fallback_password, _token, _last_refresh, _workspace_client,
                 _lock, rfVars>>

\* The lock is granted to a thread waiting for it.
\*   At `with self._lock` of get_token: the call runs to its end (the lock is
\*   released on the way out), unless a refresh is needed and the SDK is
\*   there: _fetch_oauth_token then calls _init_workspace_client, which asks
\*   for self._lock again while get_token holds it.
\*   At `with self._lock` of _init_workspace_client: the client is created if
\*   there is none, the lock is released, the token is fetched from the
\*   client and get_token goes on; when it leaves its own `with` the lock is
\*   no longer held and release() raises RuntimeError.
AcquireLock(th) ==
  /\ pc = "token"
  /\ tm_pc[th] \in {"acquire", "init_acquire"}
  /\ _lock = "free"
  /\ IF tm_pc[th] = "acquire"
     THEN IF ~needs_refresh(force_refresh[th], now)
          THEN /\ tm_pc' = [tm_pc EXCEPT ![th] = "returned"]
               /\ tm_ret' = [tm_ret EXCEPT ![th] = _token]
               /\ UNCHANGED <<_token, _last_refresh, _lock, new_token,
                              _workspace_client>>
          ELSE IF DATABRICKS_SDK_AVAILABLE
          THEN /\ tm_pc' = [tm_pc EXCEPT ![th] = "init_acquire"]
               /\ _lock' = th
               /\ UNCHANGED <<_token, _last_refresh, new_token, tm_ret,
                              _workspace_client>>
          ELSE LET r == get_token_store("None", now)
               IN /\ new_token' = [new_token EXCEPT ![th] = "None"]
                  /\ _token' = r.token
                  /\ _last_refresh' = r.last
                  /\ tm_pc' = [tm_pc EXCEPT ![th] = r.out]
                  /\ tm_ret' = [tm_ret EXCEPT ![th] = r.value]
                  /\ UNCHANGED <<_lock, _workspace_client>>
     ELSE \E client_ok \in BOOLEAN, fetched \in {"None", "oauth"} :
            LET client == IF _workspace_client # "None" THEN _workspace_client
                          ELSE IF client_ok THEN "client" ELSE "None"
                tok == IF client = "None" THEN "None" ELSE fetched
                r == get_token_store(tok, now)
            IN /\ _workspace_client' = client
               /\ new_token' = [new_token EXCEPT ![th] = tok]
               /\ _token' = r.token
               /\ _last_refresh' = r.last
               /\ tm_pc' = [tm_pc EXCEPT ![th] = "raised"]
               /\ tm_ret' = [tm_ret EXCEPT ![th] = "RuntimeError"]
               /\ UNCHANGED _lock
  /\ UNCHANGED <<uploadVars, clockVars, DATABRICKS_SDK_AVAILABLE,
                 fallback_password, force_refresh, calls, rfVars>>

\* Time goes by between two calls: the sleep of refresh_loop.
TokenSleep ==
  /\ pc = "token"
  /\ ticks < MaxTicks
  /\ now' = now + sleep_time
  /\ ticks' = ticks + 1
  /\ UNCHANGED <<uploadVars, next_sweep, tmVars, rfVars>>

(***************************************************************************)
(* The task manager on its own: its operations are called in any order,    *)
(* on identifiers that are registered, not yet given out or evicted, while *)
(* the cleanup thread makes its sweeps.  The callers make their calls in   *)
(* the first MaxTicks turns of the cleanup thread.                         *)
(***************************************************************************)
\* The identifiers the operations are called with.
ManagerIds == {"t0", "t1"}

\* What a caller passes as errors=.
ManagerErrors == <<ErrorRecord(ROW_OFFSET, "validation", 0)>>

\* The operation just called, and whether its identifier was registered
\* then, for the properties.
Called(name, tid) ==
  [hist EXCEPT !.op = <<[name |-> name, id |-> tid,
                         known |-> tid \in DOMAIN tasks]>>]

\* task_manager.create_task(total=1)
ManagerCreate ==
  /\ pc = "manager"
  /\ calls < MaxCalls
  /\ ticks <= MaxTicks
  /\ task_id = "None"
  /\ \E tid \in TaskIds \ DOMAIN tasks :
       /\ tasks' = create_task(tasks, tid, 1)
       /\ task_id' = tid
       /\ hist' = Called("create_task", tid)
  /\ calls' = calls + 1
  /\ UNCHANGED <<cfgVars, postgres_password, dbVars, pc, countVars,
                 existing_emails, loopVars, crudVars, exc, ret, faults,
                 clockVars, DATABRICKS_SDK_AVAILABLE, fallback_password,
                 _token, _last_refresh, _workspace_client, _lock, tm_pc,
                 force_refresh, new_token, tm_ret, rfVars>>

\* task_manager.start_task / update_task / complete_task / fail_task /
\* get_task, called with tid.
ManagerCall(tid) ==
  /\ pc = "manager"
  /\ calls < MaxCalls
  /\ ticks <= MaxTicks
  /\ \/ /\ tasks' = start_task(tasks, tid)
        /\ hist' = Called("start_task", tid)
     \/ /\ tasks' = update_task(tasks, tid, 1, 0, 1, ManagerErrors)
        /\ hist' = Called("update_task", tid)
     \/ /\ tasks' = complete_task(tasks, tid, <<>>, 1, 0, <<>>)
        /\ hist' = Called("complete_task", tid)
     \/ /\ tasks' = fail_task(tasks, tid, "error")
        /\ hist' = Called("fail_task", tid)
     \/ /\ tasks' = tasks
        /\ hist' = [Called("get_task", tid) EXCEPT !.got = get_task(tasks, tid)]
  /\ calls' = calls + 1
  /\ UNCHANGED <<cfgVars, postgres_password, dbVars, pc, task_id, countVars,
                 existing_emails, loopVars, crudVars, exc, ret, faults,
                 clockVars, DATABRICKS_SDK_AVAILABLE, fallback_password,
                 _token, _last_refresh, _workspace_client, _lock, tm_pc,
                 force_refresh, new_token, tm_ret, rfVars>>

\* cleanup_loop: while True:
\*   try: self.cleanup_old_tasks()
\*   except Exception: logger.exception(...)
\*   threading.Event().wait(300)
\* One turn goes by, with a sweep that can raise and then removes nothing, or
\* a whole retention period goes by, whose sweeps remove what the last of
\* them removes.  The turns are followed for as long as a finished task is
\* registered whose sweep can still be to come: the first sweep made after
\* its retention period, or a later one when that one raised.
ManagerSweep ==
  /\ pc = "manager"
  /\ \/ ticks < MaxTicks
     \/ \E x \in DOMAIN tasks :
          /\ tasks[x].completed_at # <<>>
          /\ now - tasks[x].completed_at[1]
               <= _cleanup_interval + SWEEP_WAIT * MaxFaults
  /\ \E d \in {SWEEP_WAIT, _cleanup_interval} :
       /\ now' = now + d
       /\ \E raised \in (IF d = SWEEP_WAIT /\ faults < MaxFaults
                          THEN BOOLEAN ELSE {FALSE}) :
            /\ tasks' = IF raised THEN tasks
                        ELSE cleanup_old_tasks(tasks, now')
            /\ faults' = faults + (IF raised THEN 1 ELSE 0)
  /\ hist' = [hist EXCEPT !.evicted = @ \cup (DOMAIN tasks \ DOMAIN tasks')]
  /\ next_sweep' = now' + SWEEP_WAIT
  /\ ticks' = ticks + 1
  /\ UNCHANGED <<cfgVars, postgres_password, dbVars, pc, task_id, countVars,
                 existing_emails, loopVars, crudVars, exc, ret, tmVars,
                 rfVars>>

(***************************************************************************)
(* refresh_oauth_token called by several threads, in OAuth mode.  The      *)
(* function takes no lock: a thread can be between any two of its          *)
(* statements while another one runs.                                      *)
(***************************************************************************)
\* A thread (an upload job, refresh_loop) calls refresh_oauth_token().
RefreshCall(th) ==
  /\ pc = "database"
  /\ rf_pc[th] \in {"idle", "returned"}
  /\ calls < MaxCalls
  /\ rf_pc' = [rf_pc EXCEPT ![th] = "check"]
  /\ calls' = calls + 1
  /\ UNCHANGED <<uploadVars, clockVars, DATABRICKS_SDK_AVAILABLE,
                 fallback_password, _token, _last_refresh, _workspace_client,
                 _lock, tm_pc, force_refresh, new_token, tm_ret,
                 last_password_refresh>>

\* if postgres_password is None or
\*    time.time() - last_password_refresh > settings.TOKEN_REFRESH_INTERVAL:
\*     if not DATABRICKS_SDK_AVAILABLE: (static password) ...
\*     try: init_databricks_client(); ... oauth_token() is called
\* return True
RefreshCheck(th) ==
  /\ pc = "database"
  /\ rf_pc[th] = "check"
  /\ IF \/ postgres_password = "None"
        \/ now - last_password_refresh > TOKEN_REFRESH_INTERVAL
     THEN /\ rf_pc' = [rf_pc EXCEPT ![th] = IF DATABRICKS_SDK_AVAILABLE
                                            THEN "fetch" ELSE "static"]
          /\ hist' = [hist EXCEPT !.fetches = @ + 1,
                                  !.mine = [@ EXCEPT ![th] = hist.fetches + 1]]
     ELSE /\ rf_pc' = [rf_pc EXCEPT ![th] = "returned"]
          /\ UNCHANGED hist
  /\ UNCHANGED <<cfgVars, postgres_password, dbVars, tasks, pc, task_id,
                 countVars, existing_emails, loopVars, crudVars, exc, ret,
                 faults, clockVars, tmVars, last_password_refresh>>

\* postgres_password = workspace_client.config.oauth_token().access_token
\*   except Exception: postgres_password = DATABRICKS_PASSWORD or PGPASSWORD
\* (without the SDK: postgres_password = DATABRICKS_PASSWORD or PGPASSWORD)
RefreshStore(th) ==
  /\ pc = "database"
  /\ rf_pc[th] \in {"fetch", "static"}
  /\ \E sdk \in (IF rf_pc[th] = "fetch" THEN {"ok", "fail"} ELSE {"absent"}) :
       postgres_password' =
         refresh_oauth_token(postgres_password, TRUE, sdk).password
  /\ rf_pc' = [rf_pc EXCEPT ![th] = "stamp"]
  /\ hist' = [hist EXCEPT !.pwOf = hist.mine[th]]
  /\ UNCHANGED <<cfgVars, dbVars, tasks, pc, task_id, countVars,
                 existing_emails, loopVars, crudVars, exc, ret, faults,
                 clockVars, tmVars, last_password_refresh>>

\* last_password_refresh = time.time(); return
RefreshStamp(th) ==
  /\ pc = "database"
  /\ rf_pc[th] = "stamp"
  /\ last_password_refresh' = now
  /\ rf_pc' = [rf_pc EXCEPT ![th] = "returned"]
  /\ hist' = [hist EXCEPT !.stampOf = hist.mine[th]]
  /\ UNCHANGED <<cfgVars, postgres_password, dbVars, tasks, pc, task_id,
                 countVars, existing_emails, loopVars, crudVars, exc, ret,
                 faults, clockVars, tmVars>>

\* refresh_loop: time.sleep(settings.TOKEN_REFRESH_INTERVAL - 60)
RefreshSleep ==
  /\ pc = "database"
  /\ ticks < MaxTicks
  /\ now' = now + (TOKEN_REFRESH_INTERVAL - 60)
  /\ ticks' = ticks + 1
  /\ UNCHANGED <<uploadVars, next_sweep, tmVars, rfVars>>

(***************************************************************************)
(* The specification.                                                      *)
(***************************************************************************)
Next ==
  \/ CreateTask
  \/ StartTask
  \/ InitialRefresh
  \/ OpenSession
  \/ ChunkHead
  \/ MidRunRefresh
  \/ Validate
  \/ EndOfBatches
  \/ ContactsFilter
  \/ ContactsBulk
  \/ ContactsCrudIndividual
  \/ ContactsAfterBulk
  \/ ContactsConnectionError
  \/ ContactsFallbackIndividual
  \/ LeadsFilter
  \/ LeadsBulk
  \/ AccountsBulk
  \/ AccountsIndividual
  \/ CountingBulk
  \/ CountingCrudIndividual
  \/ TasksEnter
  \/ TasksBulk
  \/ TasksExcept
  \/ FallbackIndividual
  \/ UpdateProgress
  \/ ReturnResult
  \/ CompleteTask
  \/ AccountsExcept
  \/ RunInThreadExcept
  \/ WorkerExit
  \/ Elapse
  \/ \E th \in Threads : GetTokenCall(th)
  \/ \E th \in Threads : AcquireLock(th)
  \/ TokenSleep
  \/ \E th \in Threads : RefreshCall(th)
  \/ \E th \in Threads : RefreshCheck(th)
  \/ \E th \in Threads : RefreshStore(th)
  \/ \E th \in Threads : RefreshStamp(th)
  \/ RefreshSleep

Spec == Init /\ [][Next]_vars

\* The worker thread keeps running until its function returns.
FairSpec == Spec /\ WF_vars(Next)

\* The task manager on its own, open to any caller: its operations in any
\* order on known and unknown ids, and the sweeps of the daemon thread
\* started by _start_cleanup_task.
ManagerNext ==
  \/ ManagerCreate
  \/ \E tid \in ManagerIds : ManagerCall(tid)
  \/ ManagerSweep

InitCleanup == InitManager /\ InitRun

ManagerSpec == InitCleanup /\ [][ManagerNext]_vars

\* The cleanup thread loops forever, so it is scheduled again and again.
CleanupSpec == ManagerSpec /\ WF_vars(ManagerSweep)


(***************************************************************************)
(* Properties.                                                             *)
(***************************************************************************)
Terminal == {"completed", "failed"}

StoredRows == Cardinality({k \in 1..Len(data_list) : db_rows[k] > 0})

\* C1: the status of a task only moves pending -> processing -> completed or
\* processing -> failed, and never leaves completed or failed, whatever the
\* runner and the manager do, a runner that marks the task failed and then
\* returns a dict included.
C1_StatusOnlyForward ==
  [][\A t \in DOMAIN tasks \cap DOMAIN tasks' :
       \/ tasks'[t].status = tasks[t].status
       \/ <<tasks[t].status, tasks'[t].status>> \in
            {<<"pending", "processing">>, <<"processing", "completed">>,
             <<"processing", "failed">>}]_vars

\* C2: once the worker thread has returned, normally or because the runner
\* raised, the task is completed or failed, and every started worker does
\* return.
C2_TerminalOnceWorkerReturned ==
  /\ [](pc = "done" => \A t \in DOMAIN tasks : tasks[t].status \in Terminal)
  /\ (pc = "created") ~> (pc = "done")

\* C2 witness: a runner raised in mid-loop, the worker returned and the task
\* is failed.
C2_Witness ==
  /\ pc = "done"
  /\ hist.rollbackRaised
  /\ hist.validated > 0
  /\ tasks[task_id].status = "failed"
  /\ tasks[task_id].error_message = "exception"

\* C3: in every state after the task was started, processed equals
\* success_count + failed_count, for every runner.
C3_ProcessedIsSuccessPlusFailed ==
  \A t \in DOMAIN tasks :
    tasks[t].status # "pending" =>
      tasks[t].processed = tasks[t].success_count + tasks[t].failed_count

\* C4: processed never exceeds total and never decreases from one state of
\* the task to the next.
C4_ProcessedMonotoneAndBounded ==
  /\ [](\A t \in DOMAIN tasks : tasks[t].processed <= tasks[t].total)
  /\ [][\A t \in DOMAIN tasks \cap DOMAIN tasks' :
          tasks'[t].processed >= tasks[t].processed]_vars

\* C4 witness: an upload of several chunks has reported progress more than
\* once and is fully processed.
C4_Witness ==
  /\ pc = "done"
  /\ hist.updates >= 2
  /\ CHUNK_SIZE < Len(data_list)
  /\ tasks[task_id].processed = tasks[task_id].total

\* C5: with USE_OAUTH, when the refresh before the first chunk obtains no
\* credential, the task ends failed with an authentication error and
\* processed = 0, and no record is validated or inserted.
C5_FailedRefreshFailsTheTask ==
  (hist.authFailed /\ pc = "done") =>
    /\ tasks[task_id].status = "failed"
    /\ tasks[task_id].error_message = "Authentication error"
    /\ tasks[task_id].processed = 0
    /\ hist.validated = 0
    /\ StoredRows = 0


\* Only inserts failed in this run: no query and no rollback did.
OnlyInsertErrors == ~hist.rollbackRaised /\ ~hist.queryFailed

\* C6: a validation failure, a duplicate, a constraint violation or a
\* connection or timeout error on a bulk or individual insert never aborts
\* the task: every batch is still gone through, the task ends completed and
\* the error shows only in the error records.
C6_StorageErrorsNeverAbort ==
  (pc = "done" /\ OnlyInsertErrors) =>
    /\ tasks[task_id].status = "completed"
    /\ tasks[task_id].error_message = "None"
    /\ tasks[task_id].result[1].success
    /\ hist.validated = Len(data_list)

\* C7: when the bulk insert of a batch of N valid records has failed and
\* exactly one of the N records has failed when inserted one by one, the
\* batch has added N-1 to success_count and 1 to failed_count.
C7_FallbackCountsOneFailure ==
  (/\ pc = "update"
   /\ OnlyInsertErrors
   /\ hist.bulkFailed
   /\ hist.indivTried = Len(batch_valid)
   /\ hist.indivFailed = 1) =>
    /\ success_count - hist.snapS = Len(batch_valid) - 1
    /\ failed_count - hist.snapF = 1

\* Runners whose records carry an e-mail address as their natural key.
EmailRunners == {"contacts", "leads"}

\* An upload of exactly two records, both valid, with the same key.
TwoSameKey ==
  /\ Len(data_list) = 2
  /\ data_list[1].valid
  /\ data_list[2] = data_list[1]

\* C8: two records with the same e-mail in one upload to empty storage give
\* success_count = 1 and exactly one error record, on the row of the second
\* occurrence, with a duplicate message, in one batch or in two.
C8_DuplicateReportedOnSecondOccurrence ==
  (/\ pc = "done"
   /\ runner \in EmailRunners
   /\ TwoSameKey
   /\ db_pre = {}
   /\ faults = 0) =>
    /\ tasks[task_id].success_count = 1
    /\ Len(ret[1].failed_records) = 1
    /\ ret[1].failed_records[1].row = 2 + (ROW_OFFSET - 1)
    /\ ret[1].failed_records[1].error = "duplicate"

\* C9: the row of every error record is the 1-based position of the failed
\* record in the input plus the header offset (one header row, that is the
\* 0-based index plus ROW_OFFSET), for every kind of error and whatever
\* failed validation earlier in the batch.
C9_RowIsPositionPlusHeaderOffset ==
  \A k \in 1..Len(failed_records) :
    failed_records[k].row = (failed_records[k].rec + 1) + (ROW_OFFSET - 1)

\* C10: twelve records, the seventh with an empty required field, the tenth
\* with the key of the third, batches of five: success_count = 10,
\* failed_count = 2, error records on rows 9 and 12.
C10_TwelveRecordScenario ==
  (/\ pc = "done"
   /\ runner = "contacts"
   /\ data_list = ScenarioInput
   /\ BATCH_SIZE = ScenarioSizes[2]
   /\ faults = 0) =>
    /\ tasks[task_id].success_count = 10
    /\ tasks[task_id].failed_count = 2
    /\ {ret[1].failed_records[k].row : k \in 1..Len(ret[1].failed_records)} = {9, 12}


\* C11: the batches cut by the chunk loop and the batch loop, in the order
\* they are cut, are the input from its first record on, without gap or
\* repetition; when the loops end they are the whole input and their sizes
\* add up to its length.
C11_BatchesPartitionTheInput ==
  /\ \A k \in 1..Len(hist.seen) : hist.seen[k] = k - 1
  /\ hist.validated = Len(hist.seen)
  /\ pc = "return" => hist.validated = Len(data_list)

\* C11 witness: the loops have ended on an input of several chunks, the
\* first of several batches.
C11_Witness ==
  /\ pc = "return"
  /\ BATCH_SIZE < CHUNK_SIZE
  /\ CHUNK_SIZE < Len(data_list)
  /\ hist.validated = Len(data_list)

\* C12: whenever a completed task is older than the retention period a poll
\* finds nothing, and whenever it is younger a poll finds the task, at any
\* moment between the sweeps of the cleanup thread.
C12_PollFollowsRetention ==
  (hist.finished # <<>> /\ hist.finished[1].status = "completed") =>
    LET age == now - hist.finished[1].at
    IN /\ age > _cleanup_interval => get_task(tasks, task_id) = <<>>
       /\ age < _cleanup_interval => get_task(tasks, task_id) # <<>>

\* C13: in every state of a task, completed_at is set exactly when the
\* status is completed or failed.
C13_CompletedAtIffTerminal ==
  \A t \in DOMAIN tasks :
    (tasks[t].completed_at # <<>>) <=> (tasks[t].status \in Terminal)

\* C13 witness: a task has been failed and carries its completion time.
C13_Witness ==
  \E t \in DOMAIN tasks :
    /\ tasks[t].status = "failed"
    /\ tasks[t].completed_at = <<now>>
    /\ pc \in {"finalize", "done"}


\* C14: in every state of a task, error_message is set only when the status
\* is failed; a pending, processing or completed task has none.
C14_ErrorMessageOnlyWhenFailed ==
  \A t \in DOMAIN tasks :
    tasks[t].error_message # "None" => tasks[t].status = "failed"

\* C15: when an exception escaped the per-row and per-batch handling of a
\* runner, the task the worker leaves behind is failed and carries the
\* message of that exception, also when the runner caught it itself.
C15_EscapedExceptionFailsTheTask ==
  (pc = "done" /\ hist.escaped) =>
    /\ tasks[task_id].status = "failed"
    /\ tasks[task_id].error_message = "exception"


\* C16: for one batch the bulk insert is attempted at most max_retries
\* times, the turns of the runner's retry loop and of the writer's retry
\* loop counted together.
C16_BulkAttemptsBounded ==
  hist.bulkAttempts <= max_retries


\* C17: a call of get_token that needed a refresh and got no token from the
\* fetch ends in one of two ways: with a fallback password configured it
\* returns the fallback, which is then the cached token, refreshed now;
\* with none it raises, and the cached token and the time of the last
\* refresh are what they were.
C17_FailedFetchFallsBackOrRaises ==
  [][\A th \in Threads :
       (/\ tm_pc[th] \notin {"returned", "raised"}
        /\ tm_pc'[th] \in {"returned", "raised"}
        /\ new_token'[th] = "None")
       => IF fallback_password # ""
          THEN /\ tm_pc'[th] = "returned"
               /\ tm_ret'[th] = fallback_password
               /\ _token' = fallback_password
               /\ _last_refresh' = now
          ELSE /\ tm_pc'[th] = "raised"
               /\ tm_ret'[th] = "ConnectionError"
               /\ _token' = _token
               /\ _last_refresh' = _last_refresh]_vars

\* C17 witness: a call made when the cached token had expired got no token
\* from the fetch and returned the fallback password.
C17_Witness ==
  \E th \in Threads :
    /\ tm_pc[th] = "returned"
    /\ new_token[th] = "None"
    /\ ~force_refresh[th]
    /\ fallback_password # ""
    /\ tm_ret[th] = fallback_password
    /\ _last_refresh = now
    /\ now > refresh_interval

\* C18: every call of get_token comes to an end, by returning or by
\* raising, whatever the cache holds and whichever threads call it.
C18_EveryCallEnds ==
  \A th \in Threads :
    (tm_pc[th] = "acquire") ~> (tm_pc[th] \in {"returned", "raised"})


\* C19: no field of a registered task is written outside the lock of the
\* registry.
C19_TaskWritesUnderLock ==
  hist.unlockedWrites = 0

\* C20: while a task is processing, the errors a poll shows are at most
\* the LIVE_ERRORS most recent ones, however many updates were made.
C20_LiveErrorsBounded ==
  \A t \in DOMAIN tasks :
    tasks[t].status = "processing" => Len(tasks[t].errors) <= LIVE_ERRORS


\* C21: the list of failed records in the dict a runner returns, which is
\* the result passed to complete_task, never has more than RESULT_CAP
\* entries.
C21_ResultListCapped ==
  ret # <<>> => Len(ret[1].failed_records) <= RESULT_CAP


\* C22: every batch is followed by one update_task call before the next
\* batch starts, so when the loops of a runner end the task has had as many
\* progress updates as the input has batches.
C22_OneUpdatePerBatch ==
  pc = "return" => hist.updates = hist.batches

\* The batch of the record at index r of data_list: its chunk and its
\* place in the chunk.
BatchOf(r) == <<r \div CHUNK_SIZE, (r % CHUNK_SIZE) \div BATCH_SIZE>>

\* C23: batches are taken one after the other: when a batch is cut, every
\* batch before it has had its insert attempt and its progress update; and
\* of two error records of different batches the later one has the larger
\* row.
C23_BatchesInInputOrder ==
  /\ [][hist'.batches = hist.batches + 1 => hist.updates = hist.batches]_vars
  /\ [](\A k, l \in 1..Len(failed_records) :
          (k < l /\ BatchOf(failed_records[k].rec) # BatchOf(failed_records[l].rec))
            => failed_records[k].row <= failed_records[l].row)


\* C24: with USE_OAUTH, refresh_oauth_token has been called once for every
\* chunk but the first when a batch of the chunk is cut; the call changes
\* neither the task nor the counters of the run, whatever it returns, and
\* the batch loop of the chunk starts after it.
C24_MidRunRefreshEveryChunk ==
  /\ [][(USE_OAUTH /\ hist'.batches = hist.batches + 1)
          => hist.refreshes = chunk_start \div CHUNK_SIZE]_vars
  /\ [][pc = "refresh"
          => /\ tasks' = tasks
             /\ countVars' = countVars
             /\ pc' = "batch"
             /\ i' = 0]_vars

\* C26: whenever refresh_oauth_token has returned True, postgres_password
\* is a non-empty string.
C26_TrueMeansCredentialHeld ==
  hist.refreshed = <<TRUE>> => postgres_password \notin {"None", ""}


\* C25: create_task registers, under an identifier that was not in the
\* registry, a pending task with the given total, zero counters, no errors
\* and nothing else set, and leaves every task registered before as it was.
C25_CreateTaskRegistersOnly ==
  [][(pc = "idle" /\ pc' = "created")
       => /\ task_id' \notin DOMAIN tasks
          /\ DOMAIN tasks' = DOMAIN tasks \cup {task_id'}
          /\ tasks'[task_id'] =
               [status |-> "pending", total |-> Len(data_list),
                processed |-> 0, success_count |-> 0, failed_count |-> 0,
                errors |-> <<>>, started_at |-> "None", completed_at |-> <<>>,
                result |-> <<>>, error_message |-> "None"]
          /\ \A t \in DOMAIN tasks : tasks'[t] = tasks[t]]_vars

\* C25 witness: a task has just been created in a registry that held the
\* task of an earlier upload, which is still there.
C25_Witness ==
  /\ pc = "created"
  /\ DOMAIN tasks = {"t0", task_id}
  /\ tasks["t0"] = EarlierTasks["t0"]
  /\ tasks[task_id].status = "pending"
  /\ tasks[task_id].total = 2


\* C27: when the loops of a runner end without any storage failure, every
\* record that passed validation, of every batch of every chunk, has been
\* stored once or has an error record, and none has been stored twice.
C27_EveryValidRecordInsertedOrReported ==
  (pc = "return" /\ faults = 0) =>
    \A k \in 1..Len(data_list) :
      data_list[k].valid =>
        /\ db_rows[k] <= 1
        /\ \/ db_rows[k] = 1
           \/ \E e \in 1..Len(failed_records) : failed_records[e].rec = k - 1



\* C28: in the one-by-one loops that count as they go (every runner but
\* contacts, whose writer hands its failures back in a list), each record is
\* tried on a session that needs no rollback, and a record that fails adds
\* one to failed_count and one error record of its own, and leaves the
\* session usable for the records that follow it in the batch.
C28_FailedRecordReportedSessionUsable ==
  [][(runner # "contacts" /\ hist'.indivTried = hist.indivTried + 1)
       => /\ ~sess_dirty
          /\ hist'.indivFailed = hist.indivFailed + 1
               => /\ failed_count' = failed_count + 1
                  /\ Len(failed_records') = Len(failed_records) + 1
                  /\ failed_records'[Len(failed_records')].rec = batch_valid[j]
                  /\ ~sess_dirty']_vars

\* C29: a record with a duplicate error record has no other error record
\* and no row in the table, whether its batch was written by the bulk insert
\* or one by one.
C29_DuplicateCountedOnceNeverInserted ==
  \A e \in 1..Len(failed_records) :
    failed_records[e].error = "duplicate" =>
      /\ db_rows[failed_records[e].rec + 1] = 0
      /\ \A d \in 1..Len(failed_records) :
           failed_records[d].rec = failed_records[e].rec => d = e


\* C30: a one-by-one loop is entered only from a batch whose bulk insert has
\* been attempted and has failed and, when the failure is a connection-class
\* error, only after max_retries bulk attempts; and no one-by-one insert is
\* followed by another bulk attempt of the same batch.
C30_FallbackOnlyAfterBulkGaveUp ==
  /\ [][(pc \notin {"crud_indiv", "ep_indiv"} /\ pc' \in {"crud_indiv", "ep_indiv"})
          => /\ hist'.bulkFailed
             /\ (pc = "t_except" /\ exc \in OperationalKinds
                   /\ _is_connection_error(exc))
                  => hist.bulkAttempts >= max_retries]_vars
  /\ [][hist'.indivTried = hist.indivTried + 1
          => pc' \notin {"bulk", "t_except"}]_vars


\* C31: a call of get_token made without force_refresh, with a token cached
\* and no more than refresh_interval after the last refresh, makes no fetch:
\* it returns the cached token and leaves the token, the time of the last
\* refresh and the workspace client as they were.
C31_CachedTokenReusedWithinInterval ==
  [][\A th \in Threads :
       (/\ tm_pc[th] = "acquire"
        /\ tm_pc'[th] # "acquire"
        /\ ~force_refresh[th]
        /\ _token # "None"
        /\ now - _last_refresh <= refresh_interval)
       => /\ tm_pc'[th] = "returned"
          /\ tm_ret'[th] = _token
          /\ new_token'[th] = "unset"
          /\ _token' = _token
          /\ _last_refresh' = _last_refresh
          /\ _workspace_client' = _workspace_client]_vars

\* C31 witness: a call without force_refresh has returned the cached token
\* without a fetch, and the token is still within its interval.
C31_Witness ==
  \E th \in Threads :
    /\ tm_pc[th] = "returned"
    /\ new_token[th] = "unset"
    /\ ~force_refresh[th]
    /\ _token # "None"
    /\ tm_ret[th] = _token
    /\ now > _last_refresh
    /\ now - _last_refresh <= refresh_interval


C33_CompletedTaskFrozen ==
  [][\A t \in DOMAIN tasks \cap DOMAIN tasks' :
       tasks[t].status = "completed" =>
         /\ tasks'[t].success_count = tasks[t].success_count
         /\ tasks'[t].failed_count = tasks[t].failed_count
         /\ tasks'[t].processed = tasks[t].processed
         /\ tasks'[t].errors = tasks[t].errors
         /\ tasks'[t].result = tasks[t].result
         /\ tasks'[t].completed_at = tasks[t].completed_at]_vars


\* C34: with the cleanup thread making its turns, a registered task that is
\* Completed or Failed is at some later time no longer registered, also
\* when sweeps raise on the way.
C34_TerminalTaskEvicted ==
  \A t \in ManagerIds :
    (pc = "manager" /\ t \in DOMAIN tasks /\ tasks[t].status \in Terminal)
      ~> (t \notin DOMAIN tasks)

\* C34 witness: a task was completed, sweeps have raised, and a later sweep
\* has removed the task.
C34_Witness ==
  /\ pc = "manager"
  /\ faults = MaxFaults
  /\ hist.op # <<>>
  /\ hist.op[1].name = "complete_task"
  /\ hist.op[1].id = "t1"
  /\ hist.op[1].known
  /\ "t1" \in hist.evicted


\* C39: get_task gives None for an identifier that is not registered, never
\* given out or evicted; update_task, start_task, complete_task and fail_task
\* called with such an identifier leave the registry as it is; called with a
\* registered identifier they register and remove nothing and change no
\* other task.
C39_UnknownIdIsNoOp ==
  [][(pc = "manager" /\ calls' = calls + 1
       /\ hist'.op[1].name # "create_task") =>
       LET tid == hist'.op[1].id
       IN IF tid \notin DOMAIN tasks
          THEN /\ tasks' = tasks
               /\ hist'.op[1].name = "get_task" => hist'.got = <<>>
          ELSE /\ DOMAIN tasks' = DOMAIN tasks
               /\ \A x \in DOMAIN tasks \ {tid} : tasks'[x] = tasks[x]
               /\ hist'.op[1].name = "get_task"
                    => hist'.got = <<tasks[tid]>> /\ tasks' = tasks]_vars

\* C39 witness: update_task has been called with the identifier of a task
\* that the cleanup thread had removed, while another task is registered.
C39_Witness ==
  /\ pc = "manager"
  /\ hist.op # <<>>
  /\ hist.op[1].name = "update_task"
  /\ hist.op[1].id = "t0"
  /\ ~hist.op[1].known
  /\ "t0" \in hist.evicted
  /\ DOMAIN tasks = {"t1"}


\* C35: while threads call refresh_oauth_token concurrently, at most one of
\* them is fetching a credential at any time, and whenever a thread reads
\* postgres_password and last_password_refresh the two were written by the
\* same refresh.
C35_OneFetchAndCoherentPair ==
  /\ [](Cardinality({th \in Threads : rf_pc[th] = "fetch"}) <= 1)
  /\ [][\A th \in Threads :
          (rf_pc[th] = "check" /\ rf_pc'[th] # "check")
            => hist.pwOf = hist.stampOf]_vars


\* C36: in the contacts upload, when a batch has been dealt with, every key
\* of existing_emails is the key of a record stored before the upload or
\* stored by it, and every record reported as a duplicate has a key that is
\* stored.
C36_UsedKeysAreStoredKeys ==
  (runner = "contacts" /\ pc \in {"update", "return"}) =>
    /\ existing_emails \subseteq StoredKeys
    /\ \A e \in 1..Len(failed_records) :
         failed_records[e].error = "duplicate"
           => KeyOf(failed_records[e].rec) \in StoredKeys

\* C37: while a task is processing, each error record is at most once in
\* the errors list that a poll of the task shows, however many per-batch
\* updates were made.
C37_LiveErrorsWithoutRepeats ==
  \A t \in DOMAIN tasks :
    (pc \notin {"manager", "database", "token"} /\ t = task_id
       /\ tasks[t].status = "processing") =>
      \A e1, e2 \in 1..Len(tasks[t].errors) :
        tasks[t].errors[e1] = tasks[t].errors[e2] => e1 = e2


\* C38: when a task is completed, every record of the input was processed and
\* counted once: processed equals total, and success_count plus failed_count
\* equals total.
C38_CompletedCountsCoverTotal ==
  \A t \in DOMAIN tasks :
    (pc \in {"done", "exited"} /\ t = task_id
       /\ tasks[t].status = "completed") =>
      /\ tasks[t].processed = tasks[t].total
      /\ tasks[t].success_count + tasks[t].failed_count = tasks[t].total


====
